---- MODULE Spec2Model ----
(***************************************************************************)
(* A model of the datacake-cluster replication engine:                     *)
(*   - the keyspace actor and the KeyspaceState handle    (keyspace.rs)    *)
(*   - the KeyspaceGroup registry                         (keyspace.rs)    *)
(*   - the consistency-aware write fan-out                (lib.rs)         *)
(*   - the anti-entropy poller                            (manager.rs)     *)
(*   - the membership watcher                             (lib.rs)         *)
(* Each layer has its own specification over the shared variables; the     *)
(* variables a layer does not use keep their initial value in it.          *)
(***************************************************************************)
EXTENDS Integers, Sequences, FiniteSets, TLC

\* ------------------------------------------------------------------ bounds
\* Keys are 1..NumKeys (a Key is a u64 chosen by the application).
NumKeys == 2
\* HLC timestamps are 1..MaxTs, totally ordered; 0 stands for "no entry".
MaxTs == 2
\* Concurrent callers of one keyspace handle.
NumCallers == 2
\* Calls started over a behaviour of the keyspace layer.
MaxCalls == 2
\* Largest value of the wall clock, get_unix_timestamp_ms().
MaxWall == 2
\* purge_tombstones calls over a behaviour.
MaxPurges == 1
\* Shards of a node's state (NUMBER_OF_SHARDS).
NumShards == 2
\* Membership updates the watcher receives over a behaviour.
MaxUpdates == 3
\* Node pollers spawned over a behaviour.
MaxPollers == 4
\* Handles mutating concurrently through the fan-out of node 1.
NumHandles == 2

Keys == 1..NumKeys
Ts == 1..MaxTs
Callers == 1..NumCallers

\* The members of the cluster: node 1 is the node under study, 2 and 3 its peers.
Nodes == {1, 2, 3}

\* The two nodes that poll each other, and the reply channel of each one's
\* poller.
SyncNodes == {1, 2}
PeerOf(n) == 3 - n
PollerOf(n) == NumCallers + n
Pollers == {PollerOf(n) : n \in SyncNodes}

\* ----------------------------------------------------------------- state
\* The keyspace layer of a node (keyspace.rs: KeyspaceState, run_state_actor).
VARIABLES
    wall_ms,         \* get_unix_timestamp_ms(), the wall clock
    update_counter,  \* per node: KeyspaceState.update_counter (AtomicU64)
    metadata,        \* per node: the (key, ts, dead) metadata held by Storage
    state,           \* per node: the OrSWotSet owned by run_state_actor
    tasks,           \* per node: the actor's inbox, flume::bounded(10)
    reply,           \* per caller: the oneshot channel of its pending Op
    call,            \* per caller: the KeyspaceState method it is running
    calls_made,      \* calls started so far
    purge_calls,     \* purge_tombstones calls started so far
    purged_at,       \* per node and key: the timestamp of the tombstone last purged, 0 if none
    alive,           \* per caller: its KeyspaceState handle (a flume::Sender) is not dropped
    running,         \* per node: run_state_actor is in its loop
    applied          \* per node: the Set/Del operations the actor has applied
                     \* to keys it has not purged since

ksVars == <<wall_ms, update_counter, metadata, state, tasks, reply, call,
            calls_made, purge_calls, purged_at, alive, running, applied>>

\* The keyspace registry (keyspace.rs: KeyspaceGroup).
VARIABLES
    group,                \* KeyspaceGroup.group: name -> KeyspaceState, 0 if absent
    keyspace_timestamps,  \* KeyspaceGroup.keyspace_timestamps: name -> counter, 0 if absent
    spawned,              \* actors spawned so far; actor i owns set i and counter i
    gcall                 \* per caller: its get_or_create_keyspace call

grpVars == <<group, keyspace_timestamps, spawned, gcall>>

\* The write fan-out of node 1 (lib.rs: DatacakeHandle).
VARIABLES
    hlc,        \* Clock: the last timestamp get_time() returned
    topology,   \* the peer addresses the node selector holds (set_nodes)
    documents,  \* per node: the documents held by Storage, as (ts, dead)
    req         \* per handle: the put/put_many/del/del_many it is running

fanVars == <<hlc, topology, documents, req>>

\* The anti-entropy pollers of nodes 1 and 2, each polling the other
\* (manager.rs: spawn_shard_state_poller).
VARIABLES
    previous_state,  \* per poller: previous_state, the peer's counter it last aligned with
    poll,            \* per poller: its position in the tick
    cycle_done       \* per poller: the work of a tick has ended after the writes stopped

syncVars == <<previous_state, poll, cycle_done>>

\* The tasks the pollers of node 1 spawn in a tick, one for each changed
\* shard of the peer (manager.rs: handle_node_state_change).
VARIABLES
    shard_poller,          \* per peer: the position of the poller of that peer
    shard_tasks,           \* per peer and shard: the task spawned for the shard
    concurrency_limiter,   \* per peer: the permits the tick's semaphore has left
    shard_rx,              \* per peer: the results sent and not yet received
    shard_previous_state   \* per peer: previous_state, one counter for each shard

semVars == <<shard_poller, shard_tasks, concurrency_limiter, shard_rx,
             shard_previous_state>>

\* The membership watcher of node 1 (lib.rs: watch_membership_changes).
VARIABLES
    last_network_set,  \* last_network_set: the (node_id, addr) pairs of the last update
    poller_handles,    \* poller_handles: addr -> the poller registered for it, 0 if none
    node_pollers,      \* the node pollers spawned so far, in order
    connected,         \* the addresses the RpcNetwork holds a channel to
    watcher,           \* the watcher's position in the update it is processing
    updates            \* updates processed so far

watchVars == <<last_network_set, poller_handles, node_pollers, connected, watcher,
               updates>>

vars == <<ksVars, grpVars, fanVars, syncVars, semVars, watchVars>>

\* What the actions of one layer leave alone.
notKs == <<grpVars, fanVars, syncVars, semVars, watchVars>>
notGrp == <<ksVars, fanVars, syncVars, semVars, watchVars>>
notFan == <<grpVars, syncVars, semVars, watchVars>>
notSync == <<grpVars, hlc, topology, req, semVars, watchVars>>
notSem == <<ksVars, grpVars, fanVars, syncVars, watchVars>>
notWatch == <<ksVars, grpVars, hlc, documents, req, syncVars, semVars>>

\* --------------------------------------------------------------- CRDT set
\* An entry of the set: the HLC of the last dominating operation and its
\* tombstone bit.  NoEntry is a key the set does not hold.
NoEntry == [ts |-> 0, dead |-> FALSE]
Entry(ts, dead) == [ts |-> ts, dead |-> dead]
Entries == {NoEntry} \cup {Entry(t, d) : t \in Ts, d \in BOOLEAN}
EmptySet == [k \in Keys |-> NoEntry]

\* OrSWotSet::insert: ignored if the set holds (k, ts', _) with ts' >= ts.
Insert(set, k, ts) ==
    IF set[k].ts >= ts THEN set ELSE [set EXCEPT ![k] = Entry(ts, FALSE)]

\* OrSWotSet::delete: the same dominance rule, storing a tombstone.
Delete(set, k, ts) ==
    IF set[k].ts >= ts THEN set ELSE [set EXCEPT ![k] = Entry(ts, TRUE)]

\* The tombstones of the set no younger than the horizon T.
OldDeletes(set, T) == {k \in Keys : set[k].dead /\ set[k].ts <= T}

\* OrSWotSet::purge_old_deletes: drops the given tombstones.
PurgeOldDeletes(set, purged) ==
    [k \in Keys |-> IF k \in purged THEN NoEntry ELSE set[k]]

\* ---------------------------------------------------------------- storage
\* Storage::set_metadata: writes (key, ts, dead) for the key.
SetMetadata(md, k, ts, dead) == [md EXCEPT ![k] = Entry(ts, dead)]

\* Storage::set_many_metadata: writes the pairs in iteration order.
RECURSIVE SetManyMetadata(_, _, _)
SetManyMetadata(md, pairs, dead) ==
    IF pairs = << >> THEN md
    ELSE SetManyMetadata(SetMetadata(md, Head(pairs)[1], Head(pairs)[2], dead),
                         Tail(pairs), dead)

\* Storage::remove_many_metadata.
RemoveManyMetadata(md, keys) ==
    [k \in Keys |-> IF k \in keys THEN NoEntry ELSE md[k]]

\* flume::bounded(10) in KeyspaceState::spawn.
InboxCapacity == 10

Pairs == Keys \X Ts
\* StateChanges: the key_ts_pairs of multi_put and multi_del, here two pairs
\* (a batch of one pair acts as put or del do).
Batches == {<<p, q>> : p \in Pairs, q \in Pairs}

NoReply == [sent |-> FALSE, keys |-> {}, set |-> EmptySet]
\* `stored` is the outcome of the method's storage write: "no" before it,
\* then "ok" or "err".
\* `now` is the clock value a method has read and not yet stored.
IdleCall == [pc |-> "idle", node |-> 0, op |-> "None", pairs |-> << >>,
             stored |-> "no", result |-> "None", now |-> 0]

KsInit ==
    /\ wall_ms = 1
    /\ update_counter = [n \in Nodes |-> 0]
    /\ metadata = [n \in Nodes |-> EmptySet]
    /\ state = [n \in Nodes |-> EmptySet]
    /\ tasks = [n \in Nodes |-> << >>]
    /\ reply = [c \in Callers \cup Pollers |-> NoReply]
    /\ call = [c \in Callers |-> IdleCall]
    /\ calls_made = 0
    /\ purge_calls = 0
    /\ applied = [n \in Nodes |-> {}]
    /\ purged_at = [n \in Nodes |-> [k \in Keys |-> 0]]
    /\ alive = [c \in Callers |-> TRUE]
    /\ running = [n \in Nodes |-> TRUE]

\* The wall clock advances.
Tick ==
    /\ wall_ms < MaxWall
    /\ wall_ms' = wall_ms + 1
    /\ UNCHANGED notKs
    /\ UNCHANGED <<update_counter, metadata, state, tasks, reply, call,
                   calls_made, purge_calls, applied, purged_at, alive, running>>

CanCall(c) == alive[c] /\ call[c].pc \in {"idle", "done"} /\ calls_made < MaxCalls

\* The first statement of put, multi_put, del and multi_del: the counter is
\* stamped with the wall clock before anything is awaited.
Stamp(c, n, op, pairs) ==
    /\ CanCall(c)
    /\ update_counter' = [update_counter EXCEPT ![n] = wall_ms]
    /\ call' = [call EXCEPT ![c] = [pc |-> "store", node |-> n, op |-> op,
                                    pairs |-> pairs, stored |-> "no",
                                    result |-> "None", now |-> 0]]
    /\ calls_made' = calls_made + 1
    /\ UNCHANGED notKs
    /\ UNCHANGED <<wall_ms, metadata, state, tasks, reply, purge_calls, applied,
                   purged_at, alive, running>>

Put(c, n, key, ts) == Stamp(c, n, "Set", <<<<key, ts>>>>)

MultiPut(c, n, key_ts_pairs) == Stamp(c, n, "MultiSet", key_ts_pairs)

Del(c, n, key, ts) == Stamp(c, n, "Del", <<<<key, ts>>>>)

MultiDel(c, n, key_ts_pairs) == Stamp(c, n, "MultiDel", key_ts_pairs)

IsDelete(op) == op \in {"Del", "MultiDel"}

\* self.storage.set_metadata(..).await? / set_many_metadata(..).await?
\* succeeds: the metadata is written and the method goes on to the send.
StoreMetadata(c) ==
    /\ call[c].pc = "store"
    /\ LET n == call[c].node
           dead == IsDelete(call[c].op)
       IN metadata' = [metadata EXCEPT ![n] =
              IF call[c].op \in {"Set", "Del"}
              THEN SetMetadata(@, call[c].pairs[1][1], call[c].pairs[1][2], dead)
              ELSE SetManyMetadata(@, call[c].pairs, dead)]
    /\ call' = [call EXCEPT ![c].pc = "send", ![c].stored = "ok"]
    /\ UNCHANGED notKs
    /\ UNCHANGED <<wall_ms, update_counter, state, tasks, reply, calls_made,
                   purge_calls, applied, purged_at, alive, running>>

\* A faulty method: the error of the storage write is dropped and the method
\* goes on to send its Op.
StoreFailsIgnored(c) ==
    /\ call[c].pc = "store"
    /\ call' = [call EXCEPT ![c].pc = "send", ![c].stored = "err"]
    /\ UNCHANGED notKs
    /\ UNCHANGED <<wall_ms, update_counter, metadata, state, tasks, reply,
                   calls_made, purge_calls, applied, purged_at, alive, running>>

\* The storage write fails: `?` returns the storage error from the method.
StoreFails(c) ==
    /\ call[c].pc = "store"
    /\ call' = [call EXCEPT ![c].pc = "done", ![c].pairs = << >>,
                             ![c].stored = "err", ![c].result = "StorageError"]
    /\ UNCHANGED notKs
    /\ UNCHANGED <<wall_ms, update_counter, metadata, state, tasks, reply,
                   calls_made, purge_calls, applied, purged_at, alive, running>>

\* A faulty method: the Op is enqueued without waiting for the storage write.
SendEarly(c) ==
    /\ call[c].pc \in {"store", "send"}
    /\ Len(tasks[call[c].node]) < InboxCapacity
    /\ tasks' = [tasks EXCEPT ![call[c].node] =
                    Append(@, [op |-> call[c].op, pairs |-> call[c].pairs, tx |-> c])]
    /\ call' = [call EXCEPT ![c].pc = "wait", ![c].pairs = << >>]
    /\ UNCHANGED notKs
    /\ UNCHANGED <<wall_ms, update_counter, metadata, state, reply, calls_made,
                   purge_calls, applied, purged_at, alive, running>>

\* A faulty channel: send_async enqueues whatever the inbox holds.
SendUnbounded(c) ==
    /\ call[c].pc = "send"
    /\ tasks' = [tasks EXCEPT ![call[c].node] =
                    Append(@, [op |-> call[c].op, pairs |-> call[c].pairs, tx |-> c])]
    /\ call' = [call EXCEPT ![c].pc = "wait", ![c].pairs = << >>]
    /\ UNCHANGED notKs
    /\ UNCHANGED <<wall_ms, update_counter, metadata, state, reply, calls_made,
                   purge_calls, applied, purged_at, alive, running>>

\* self.tx.send_async(Op::.. { .., tx }).await: blocks while the inbox is full.
Send(c) ==
    /\ call[c].pc = "send"
    /\ Len(tasks[call[c].node]) < InboxCapacity
    /\ tasks' = [tasks EXCEPT ![call[c].node] =
                    Append(@, [op |-> call[c].op, pairs |-> call[c].pairs, tx |-> c])]
    /\ call' = [call EXCEPT ![c].pc = "wait", ![c].pairs = << >>]
    /\ UNCHANGED notKs
    /\ UNCHANGED <<wall_ms, update_counter, metadata, state, reply, calls_made,
                   purge_calls, applied, purged_at, alive, running>>

\* `let _ = rx.await; Ok(())`
Await(c) ==
    /\ call[c].pc = "wait"
    /\ reply[c].sent
    /\ reply' = [reply EXCEPT ![c] = NoReply]
    /\ call' = [call EXCEPT ![c].pc = "done", ![c].result = "Ok"]
    /\ UNCHANGED notKs
    /\ UNCHANGED <<wall_ms, update_counter, metadata, state, tasks, calls_made,
                   purge_calls, applied, purged_at, alive, running>>

\* ----------------------------------------------------------- the actor
RECURSIVE InsertAll(_, _)
InsertAll(set, pairs) ==
    IF pairs = << >> THEN set
    ELSE InsertAll(Insert(set, Head(pairs)[1], Head(pairs)[2]), Tail(pairs))

RECURSIVE DeleteAll(_, _)
DeleteAll(set, pairs) ==
    IF pairs = << >> THEN set
    ELSE DeleteAll(Delete(set, Head(pairs)[1], Head(pairs)[2]), Tail(pairs))

\* A faulty actor: Op::Del is answered without touching the set.
ApplyOpDropsDel(set, msg) ==
    CASE msg.op = "Set" -> Insert(set, msg.pairs[1][1], msg.pairs[1][2])
      [] msg.op = "MultiSet" -> InsertAll(set, msg.pairs)
      [] msg.op = "Del" -> set
      [] msg.op = "MultiDel" -> DeleteAll(set, msg.pairs)
      [] OTHER -> set

\* The `match op` of run_state_actor for the four mutating messages.
ApplyOp(set, msg) ==
    CASE msg.op = "Set" -> Insert(set, msg.pairs[1][1], msg.pairs[1][2])
      [] msg.op = "MultiSet" -> InsertAll(set, msg.pairs)
      [] msg.op = "Del" -> Delete(set, msg.pairs[1][1], msg.pairs[1][2])
      [] msg.op = "MultiDel" -> DeleteAll(set, msg.pairs)
      [] OTHER -> set

\* The operations a message carries, as (key, ts, dead) records.
OpsOf(msg) ==
    {[key |-> msg.pairs[i][1], ts |-> msg.pairs[i][2], dead |-> IsDelete(msg.op)] :
        i \in 1..Len(msg.pairs)}

\* A faulty actor: the newest message of the inbox is taken first.
RunStateActorNewestFirst(n) ==
    /\ running[n]
    /\ tasks[n] # << >>
    /\ LET msg == tasks[n][Len(tasks[n])] IN
        /\ tasks' = [tasks EXCEPT ![n] = SubSeq(@, 1, Len(@) - 1)]
        /\ IF msg.op = "PurgeDeletes"
           THEN \E T \in 0..MaxTs :
                  LET keys == OldDeletes(state[n], T) IN
                    /\ state' = [state EXCEPT ![n] = PurgeOldDeletes(@, keys)]
                    /\ reply' = [reply EXCEPT ![msg.tx] =
                                    [sent |-> TRUE, keys |-> keys, set |-> EmptySet]]
                    /\ applied' = [applied EXCEPT ![n] = {o \in @ : o.key \notin keys}]
                    /\ purged_at' = [purged_at EXCEPT ![n] =
                          [k \in Keys |-> IF k \in keys THEN state[n][k].ts ELSE @[k]]]
           ELSE IF msg.op = "Serialize"
           THEN /\ reply' = [reply EXCEPT ![msg.tx] =
                                [sent |-> TRUE, keys |-> {}, set |-> state[n]]]
                /\ UNCHANGED <<state, applied, purged_at>>
           ELSE /\ state' = [state EXCEPT ![n] = ApplyOp(@, msg)]
                /\ reply' = [reply EXCEPT ![msg.tx] =
                                [sent |-> TRUE, keys |-> {}, set |-> EmptySet]]
                /\ applied' = [applied EXCEPT ![n] = @ \cup OpsOf(msg)]
                /\ UNCHANGED purged_at
    /\ UNCHANGED notKs
    /\ UNCHANGED <<wall_ms, update_counter, metadata, call, calls_made, purge_calls,
                   alive, running>>

\* One turn of `while let Ok(op) = tasks.recv_async().await`: the head of the
\* inbox is taken, applied to the set and answered on its oneshot channel.
RunStateActor(n) ==
    /\ running[n]
    /\ tasks[n] # << >>
    /\ LET msg == Head(tasks[n]) IN
        /\ tasks' = [tasks EXCEPT ![n] = Tail(@)]
        /\ IF msg.op = "PurgeDeletes"
           THEN \E T \in 0..MaxTs :
                  LET keys == OldDeletes(state[n], T) IN
                    /\ state' = [state EXCEPT ![n] = PurgeOldDeletes(@, keys)]
                    /\ reply' = [reply EXCEPT ![msg.tx] =
                                    [sent |-> TRUE, keys |-> keys, set |-> EmptySet]]
                    /\ applied' = [applied EXCEPT ![n] = {o \in @ : o.key \notin keys}]
                    /\ purged_at' = [purged_at EXCEPT ![n] =
                          [k \in Keys |-> IF k \in keys THEN state[n][k].ts ELSE @[k]]]
           ELSE IF msg.op = "Serialize"
           THEN /\ reply' = [reply EXCEPT ![msg.tx] =
                                [sent |-> TRUE, keys |-> {}, set |-> state[n]]]
                /\ UNCHANGED <<state, applied, purged_at>>
           ELSE /\ state' = [state EXCEPT ![n] = ApplyOp(@, msg)]
                /\ reply' = [reply EXCEPT ![msg.tx] =
                                [sent |-> TRUE, keys |-> {}, set |-> EmptySet]]
                /\ applied' = [applied EXCEPT ![n] = @ \cup OpsOf(msg)]
                /\ UNCHANGED purged_at
    /\ UNCHANGED notKs
    /\ UNCHANGED <<wall_ms, update_counter, metadata, call, calls_made, purge_calls,
                   alive, running>>

\* purge_tombstones up to the await of the reply: Op::PurgeDeletes is sent.
PurgeTombstones(c, n) ==
    /\ alive[c]
    /\ call[c].pc \in {"idle", "done"}
    /\ purge_calls < MaxPurges
    /\ Len(tasks[n]) < InboxCapacity
    /\ tasks' = [tasks EXCEPT ![n] =
                    Append(@, [op |-> "PurgeDeletes", pairs |-> << >>, tx |-> c])]
    /\ call' = [call EXCEPT ![c] = [pc |-> "wait_purge", node |-> n,
                    op |-> "PurgeDeletes", pairs |-> << >>, stored |-> "no",
                    result |-> "None", now |-> 0]]
    /\ purge_calls' = purge_calls + 1
    /\ UNCHANGED notKs
    /\ UNCHANGED <<wall_ms, update_counter, metadata, state, reply, calls_made, applied,
                   purged_at, alive, running>>

\* A faulty purge_tombstones: every tombstone of the metadata is removed,
\* whether the actor purged its key or not.
PurgeRemoveEveryTombstone(c) ==
    /\ call[c].pc = "wait_purge"
    /\ reply[c].sent
    /\ metadata' = [metadata EXCEPT ![call[c].node] =
          RemoveManyMetadata(@, {k \in Keys : @[k].dead})]
    /\ reply' = [reply EXCEPT ![c] = NoReply]
    /\ call' = [call EXCEPT ![c].pc = "done", ![c].stored = "ok", ![c].result = "Ok"]
    /\ UNCHANGED notKs
    /\ UNCHANGED <<wall_ms, update_counter, state, tasks, calls_made, purge_calls, applied,
                   purged_at, alive, running>>

\* purge_tombstones after the reply: the purged keys leave the metadata.
PurgeRemove(c) ==
    /\ call[c].pc = "wait_purge"
    /\ reply[c].sent
    /\ metadata' = [metadata EXCEPT ![call[c].node] = RemoveManyMetadata(@, reply[c].keys)]
    /\ reply' = [reply EXCEPT ![c] = NoReply]
    /\ call' = [call EXCEPT ![c].pc = "done", ![c].stored = "ok", ![c].result = "Ok"]
    /\ UNCHANGED notKs
    /\ UNCHANGED <<wall_ms, update_counter, state, tasks, calls_made, purge_calls, applied,
                   purged_at, alive, running>>

\* remove_many_metadata fails: its error is the result of purge_tombstones.
PurgeRemoveFails(c) ==
    /\ call[c].pc = "wait_purge"
    /\ reply[c].sent
    /\ reply' = [reply EXCEPT ![c] = NoReply]
    /\ call' = [call EXCEPT ![c].pc = "done", ![c].stored = "err",
                             ![c].result = "StorageError"]
    /\ UNCHANGED notKs
    /\ UNCHANGED <<wall_ms, update_counter, metadata, state, tasks, calls_made,
                   purge_calls, applied, purged_at, alive, running>>

\* The keyspace layer of one node: callers of one KeyspaceState and its actor.
KsNodes == {1}

KsStep ==
    \/ \E c \in Callers, n \in KsNodes, k \in Keys, t \in Ts : Put(c, n, k, t)
    \/ \E c \in Callers, n \in KsNodes, k \in Keys, t \in Ts : Del(c, n, k, t)
    \/ \E c \in Callers, n \in KsNodes, b \in Batches : MultiPut(c, n, b)
    \/ \E c \in Callers, n \in KsNodes, b \in Batches : MultiDel(c, n, b)
    \/ \E c \in Callers : StoreMetadata(c)
    \/ \E c \in Callers : StoreFails(c)
    \/ \E c \in Callers : Send(c)
    \/ \E c \in Callers : Await(c)
    \/ \E n \in KsNodes : RunStateActor(n)
    \/ \E c \in Callers, n \in KsNodes : PurgeTombstones(c, n)
    \/ \E c \in Callers : PurgeRemove(c)
    \/ \E c \in Callers : PurgeRemoveFails(c)

\* ------------------------------------------------- the stamp, in two steps
\* `self.update_counter.store(get_unix_timestamp_ms(), Ordering::Relaxed)`
\* reads the clock and then stores what it read; another task may run
\* between the two.  Stamp above is the case where none does.
ReadClock(c, n, op, pairs) ==
    /\ CanCall(c)
    /\ call' = [call EXCEPT ![c] = [pc |-> "stamp", node |-> n, op |-> op,
                                    pairs |-> pairs, stored |-> "no",
                                    result |-> "None", now |-> wall_ms]]
    /\ calls_made' = calls_made + 1
    /\ UNCHANGED notKs
    /\ UNCHANGED <<wall_ms, update_counter, metadata, state, tasks, reply, purge_calls,
                   applied, purged_at, alive, running>>

StoreCounter(c) ==
    /\ call[c].pc = "stamp"
    /\ update_counter' = [update_counter EXCEPT ![call[c].node] = call[c].now]
    /\ call' = [call EXCEPT ![c].pc = "store", ![c].now = 0]
    /\ UNCHANGED notKs
    /\ UNCHANGED <<wall_ms, metadata, state, tasks, reply, calls_made, purge_calls,
                   applied, purged_at, alive, running>>

\* The arguments a method takes: one pair for put and del, a batch for
\* multi_put and multi_del.
ArgsOf(op) == IF op \in {"Set", "Del"} THEN {<<p>> : p \in Pairs} ELSE Batches

StampStep ==
    \/ Tick
    \/ \E c \in Callers, n \in KsNodes, op \in {"Set", "MultiSet", "Del", "MultiDel"} :
          \E pairs \in ArgsOf(op) : ReadClock(c, n, op, pairs)
    \/ \E c \in Callers : StoreCounter(c)
    \/ \E c \in Callers : StoreMetadata(c)
    \/ \E c \in Callers : Send(c)
    \/ \E c \in Callers : Await(c)
    \/ \E n \in KsNodes : RunStateActor(n)

\* ------------------------------------------------ the actor's life and end
\* A KeyspaceState (and each clone of it) holds a flume::Sender of the
\* actor's inbox.  Dropping the handle drops its sender; a call it was in the
\* middle of is cancelled with it, and an Op it had already enqueued stays in
\* the inbox.
Drop(c) ==
    /\ alive[c]
    /\ alive' = [alive EXCEPT ![c] = FALSE]
    /\ call' = [call EXCEPT ![c].pc = "dropped"]
    /\ UNCHANGED notKs
    /\ UNCHANGED <<wall_ms, update_counter, metadata, state, tasks, reply, calls_made,
                   purge_calls, purged_at, running, applied>>

AllDropped == \A c \in Callers : ~alive[c]

\* An actor that leaves its loop whenever it finds the inbox empty.
ActorExitEarly(n) ==
    /\ running[n]
    /\ tasks[n] = << >>
    /\ running' = [running EXCEPT ![n] = FALSE]
    /\ UNCHANGED notKs
    /\ UNCHANGED <<wall_ms, update_counter, metadata, state, tasks, reply, call,
                   calls_made, purge_calls, purged_at, alive, applied>>

\* `while let Ok(op) = tasks.recv_async().await` ends: recv_async of a flume
\* channel returns Err only when the inbox is empty and no sender is left.
ActorExit(n) ==
    /\ running[n]
    /\ tasks[n] = << >>
    /\ AllDropped
    /\ running' = [running EXCEPT ![n] = FALSE]
    /\ UNCHANGED notKs
    /\ UNCHANGED <<wall_ms, update_counter, metadata, state, tasks, reply, call,
                   calls_made, purge_calls, purged_at, alive, applied>>

ActorStep ==
    \/ \E c \in Callers, n \in KsNodes, k \in Keys, t \in Ts : Put(c, n, k, t)
    \/ \E c \in Callers, n \in KsNodes, k \in Keys, t \in Ts : Del(c, n, k, t)
    \/ \E c \in Callers : StoreMetadata(c)
    \/ \E c \in Callers : Send(c)
    \/ \E c \in Callers : Await(c)
    \/ \E c \in Callers : Drop(c)
    \/ \E n \in KsNodes : RunStateActor(n)
    \/ \E n \in KsNodes : ActorExit(n)

\* ------------------------------------------------------ the inbox when full
\* Tasks that call put on one keyspace handle at the same time: one more than
\* the inbox holds.  Each calls once, put(1, 1); they are alike, so they are
\* let to start and to send in the order of their numbers.
NumSenders == 11
Senders == 1..NumSenders

KsInitSenders ==
    /\ wall_ms = 1
    /\ update_counter = [n \in Nodes |-> 0]
    /\ metadata = [n \in Nodes |-> EmptySet]
    /\ state = [n \in Nodes |-> EmptySet]
    /\ tasks = [n \in Nodes |-> << >>]
    /\ reply = [c \in Senders |-> NoReply]
    /\ call = [c \in Senders |-> IdleCall]
    /\ calls_made = 0
    /\ purge_calls = 0
    /\ applied = [n \in Nodes |-> {}]
    /\ purged_at = [n \in Nodes |-> [k \in Keys |-> 0]]
    /\ alive = [c \in Senders |-> TRUE]
    /\ running = [n \in Nodes |-> TRUE]

\* Every sender with a lower number is past the positions pcs.
InTurn(c, pcs) == \A d \in Senders : d < c => call[d].pc \notin pcs

\* put up to its send_async: the counter is stamped and the metadata written.
PutToSend(c) ==
    /\ call[c].pc = "idle"
    /\ InTurn(c, {"idle"})
    /\ update_counter' = [update_counter EXCEPT ![1] = wall_ms]
    /\ metadata' = [metadata EXCEPT ![1] = SetMetadata(@, 1, 1, FALSE)]
    /\ call' = [call EXCEPT ![c] = [pc |-> "send", node |-> 1, op |-> "Set",
                                    pairs |-> <<<<1, 1>>>>, stored |-> "ok",
                                    result |-> "None", now |-> 0]]
    /\ UNCHANGED notKs
    /\ UNCHANGED <<wall_ms, state, tasks, reply, calls_made, purge_calls, applied,
                   purged_at, alive, running>>

\* send_async of the sender whose turn it is.
SendInTurn(c) == InTurn(c, {"idle", "send"}) /\ Send(c)

InboxStep ==
    \/ \E c \in Senders : PutToSend(c)
    \/ \E c \in Senders : SendInTurn(c)
    \/ \E c \in Senders : Await(c)
    \/ RunStateActor(1)

\* ------------------------------------------------------- the keyspace group
\* Keyspace names are 1..NumKeyspaces.
NumKeyspaces == 2
\* Concurrent callers of get_or_create_keyspace.
NumGroupCallers == 3

Keyspaces == 1..NumKeyspaces
GroupCallers == 1..NumGroupCallers

\* A KeyspaceState is named by the actor its `tx` feeds; its update_counter is
\* the counter created with that actor.
NoHandle == 0
IdleGroupCall == [pc |-> "idle", name |-> 0, handle |-> NoHandle]

GrpInit ==
    /\ group = [ks \in Keyspaces |-> NoHandle]
    /\ keyspace_timestamps = [ks \in Keyspaces |-> NoHandle]
    /\ spawned = 0
    /\ gcall = [c \in GroupCallers |-> IdleGroupCall]

\* get_or_create_keyspace: the lookup under the read lock.  A present name
\* returns a clone of its handle; an absent one goes on to add_state.
GetOrCreateKeyspace(c, name) ==
    /\ gcall[c].pc = "idle"
    /\ gcall' = [gcall EXCEPT ![c] =
          IF group[name] # NoHandle
          THEN [pc |-> "done", name |-> name, handle |-> group[name]]
          ELSE [pc |-> "add_state", name |-> name, handle |-> NoHandle]]
    /\ UNCHANGED notGrp
    /\ UNCHANGED <<group, keyspace_timestamps, spawned>>

\* add_state: a fresh counter and KeyspaceState::spawn, a new actor.
AddStateSpawn(c) ==
    /\ gcall[c].pc = "add_state"
    /\ spawned' = spawned + 1
    /\ gcall' = [gcall EXCEPT ![c].pc = "insert_group", ![c].handle = spawned + 1]
    /\ UNCHANGED notGrp
    /\ UNCHANGED <<group, keyspace_timestamps>>

\* add_state: guard.insert(name, state) under the write lock of `group`.
AddStateInsertGroup(c) ==
    /\ gcall[c].pc = "insert_group"
    /\ group' = [group EXCEPT ![gcall[c].name] = gcall[c].handle]
    /\ gcall' = [gcall EXCEPT ![c].pc = "insert_counter"]
    /\ UNCHANGED notGrp
    /\ UNCHANGED <<keyspace_timestamps, spawned>>

\* add_state: guard.insert(CounterKey(name), update_counter) under the write
\* lock of `keyspace_timestamps`, then the new handle is returned.
AddStateInsertCounter(c) ==
    /\ gcall[c].pc = "insert_counter"
    /\ keyspace_timestamps' = [keyspace_timestamps EXCEPT ![gcall[c].name] = gcall[c].handle]
    /\ gcall' = [gcall EXCEPT ![c].pc = "done"]
    /\ UNCHANGED notGrp
    /\ UNCHANGED <<group, spawned>>

GrpStep ==
    \/ \E c \in GroupCallers, name \in Keyspaces : GetOrCreateKeyspace(c, name)
    \/ \E c \in GroupCallers : AddStateSpawn(c)
    \/ \E c \in GroupCallers : AddStateInsertGroup(c)
    \/ \E c \in GroupCallers : AddStateInsertCounter(c)


\* ------------------------------------------------------------ write fan-out
Handles == 1..NumHandles
Local == 1
Peers == Nodes \ {Local}

\* Consistency levels.  With one data center LocalOne, LocalQuorum and
\* EachQuorum select as One and Quorum do.
Levels == {"None", "One", "Quorum", "All"}

\* The size of a quorum of n nodes.
QuorumSize(n) == (n \div 2) + 1

\* NodeSelectorHandle::get_nodes: the peer sets that satisfy the level; the
\* empty result is ConsistencyError::NotEnoughNodes.
GetNodes(level, topo) ==
    CASE level = "None" -> {{}}
      [] level = "One" -> {{p} : p \in topo}
      [] level = "Quorum" -> {ns \in SUBSET topo : Cardinality(ns) = QuorumSize(Cardinality(topo))}
      [] level = "All" -> {topo}

\* The mutations of a handle: put and del of the first key, put_many and
\* del_many of every key.
Kinds == {"put", "put_many", "del", "del_many"}
KeysOf(kind) == IF kind \in {"put", "del"} THEN {{1}} ELSE {Keys}

IdleReq == [pc |-> "idle", kind |-> "none", keys |-> {}, level |-> "None",
            selected |-> "no", nodes |-> {}, ts |-> 0, local |-> "no",
            sent |-> {}, pending |-> {}, acked |-> {},
            num_success |-> 0, result |-> [kind |-> "None"]]

FanInit ==
    /\ hlc = 0
    /\ topology = Peers
    /\ documents = [n \in Nodes |-> EmptySet]
    /\ req = [h \in Handles |-> IdleReq]

\* The memberships the cluster goes through: node 3 leaves before node 2.
Memberships == {{}, {2}, {2, 3}}

\* watch_membership_changes: node_selector.set_nodes(data_centers).
SetNodes(members) ==
    /\ topology # members
    /\ topology' = members
    /\ UNCHANGED <<hlc, documents, req>>
    /\ UNCHANGED ksVars
    /\ UNCHANGED notFan

\* self.node_selector.get_nodes(consistency).await succeeds.
SelectNodes(h, kind, keys, level, nodes) ==
    /\ req[h].pc = "idle"
    /\ nodes \in GetNodes(level, topology)
    /\ req' = [req EXCEPT ![h] = [IdleReq EXCEPT !.pc = "selected", !.kind = kind,
                  !.keys = keys, !.level = level, !.selected = "ok", !.nodes = nodes]]
    /\ UNCHANGED <<hlc, topology, documents>>
    /\ UNCHANGED ksVars
    /\ UNCHANGED notFan

\* A faulty handle: the selector's error is dropped and the mutation goes on
\* with no peers.
SelectFailsIgnored(h, kind, keys, level) ==
    /\ req[h].pc = "idle"
    /\ GetNodes(level, topology) = {}
    /\ req' = [req EXCEPT ![h] = [IdleReq EXCEPT !.pc = "selected", !.kind = kind,
                  !.keys = keys, !.level = level, !.selected = "err"]]
    /\ UNCHANGED <<hlc, topology, documents>>
    /\ UNCHANGED ksVars
    /\ UNCHANGED notFan

\* get_nodes fails: .map_err(DatacakeError::ConsistencyError)? returns.
SelectFails(h, kind, keys, level) ==
    /\ req[h].pc = "idle"
    /\ GetNodes(level, topology) = {}
    /\ req' = [req EXCEPT ![h] = [IdleReq EXCEPT !.pc = "done", !.kind = kind,
                  !.keys = keys, !.level = level, !.selected = "err",
                  !.result = [kind |-> "NotEnoughNodes"]]]
    /\ UNCHANGED <<hlc, topology, documents>>
    /\ UNCHANGED ksVars
    /\ UNCHANGED notFan

\* let last_updated = self.clock.get_time().await
GetTime(h) ==
    /\ req[h].pc = "selected"
    /\ hlc < MaxTs
    /\ hlc' = hlc + 1
    /\ req' = [req EXCEPT ![h].pc = "stamped", ![h].ts = hlc + 1]
    /\ UNCHANGED <<topology, documents>>
    /\ UNCHANGED ksVars
    /\ UNCHANGED notFan

IsDel(kind) == kind \in {"del", "del_many"}

\* core::put_data / put_many_data / del_data / del_many_data on one node: the
\* documents are written (or marked as tombstones), then the keyspace's
\* put / multi_put / del / multi_del runs to its end.
DocsAfter(docs, kind, keys, ts) ==
    [k \in Keys |-> IF k \in keys THEN Entry(ts, IsDel(kind)) ELSE docs[k]]

MetadataAfter(md, kind, keys, ts) ==
    [k \in Keys |-> IF k \in keys THEN SetMetadata(md, k, ts, IsDel(kind))[k] ELSE md[k]]

StateAfter(set, kind, keys, ts) ==
    [k \in Keys |-> IF k \in keys
                    THEN (IF IsDel(kind) THEN Delete(set, k, ts) ELSE Insert(set, k, ts))[k]
                    ELSE set[k]]

\* The local apply succeeds: core::put_data(..).await? and its siblings.
LocalApply(h) ==
    /\ req[h].pc = "stamped"
    /\ documents' = [documents EXCEPT ![Local] = DocsAfter(@, req[h].kind, req[h].keys, req[h].ts)]
    /\ update_counter' = [update_counter EXCEPT ![Local] = wall_ms]
    /\ metadata' = [metadata EXCEPT ![Local] = MetadataAfter(@, req[h].kind, req[h].keys, req[h].ts)]
    /\ state' = [state EXCEPT ![Local] = StateAfter(@, req[h].kind, req[h].keys, req[h].ts)]
    /\ req' = [req EXCEPT ![h].pc = "applied", ![h].local = "ok"]
    /\ UNCHANGED <<hlc, topology>>
    /\ UNCHANGED <<wall_ms, tasks, reply, call, calls_made, purge_calls, applied,
                   purged_at, alive, running>>
    /\ UNCHANGED notFan

\* A faulty handle: the storage error of the local apply is dropped and the
\* mutation goes on to its peers.
LocalApplyFailsIgnored(h) ==
    /\ req[h].pc = "stamped"
    /\ req' = [req EXCEPT ![h].pc = "applied", ![h].local = "err"]
    /\ UNCHANGED <<hlc, topology, documents>>
    /\ UNCHANGED ksVars
    /\ UNCHANGED notFan

\* The local apply fails with a storage error, on the write of the documents
\* (nothing is written) or on the write of the metadata (the documents are
\* written and the counter stamped): `?` returns the error.
LocalApplyFails(h) ==
    /\ req[h].pc = "stamped"
    /\ \E at \in {"documents", "metadata"} :
         IF at = "documents"
         THEN UNCHANGED <<documents, update_counter>>
         ELSE /\ documents' = [documents EXCEPT ![Local] =
                                  DocsAfter(@, req[h].kind, req[h].keys, req[h].ts)]
              /\ update_counter' = [update_counter EXCEPT ![Local] = wall_ms]
    /\ req' = [req EXCEPT ![h].pc = "done", ![h].local = "err",
                          ![h].result = [kind |-> "StorageError"]]
    /\ UNCHANGED <<hlc, topology>>
    /\ UNCHANGED <<wall_ms, metadata, state, tasks, reply, call, calls_made,
                   purge_calls, applied, purged_at, alive, running>>
    /\ UNCHANGED notFan

\* A faulty fan-out: one acknowledgement is enough.
OutcomeOfAnyAck(num_success, num_required) ==
    IF num_success = 0 /\ num_required # 0
    THEN [kind |-> "ConsistencyFailure", responses |-> num_success, required |-> num_required]
    ELSE [kind |-> "Ok"]

\* A faulty fan-out: Ok needs at least one acknowledgement.
OutcomeNeedsAck(num_success, num_required) ==
    IF num_success # num_required \/ num_success = 0
    THEN [kind |-> "ConsistencyFailure", responses |-> num_success, required |-> num_required]
    ELSE [kind |-> "Ok"]

\* The end of handle_consistency_distribution: `if num_success != num_required`.
Outcome(num_success, num_required) ==
    IF num_success # num_required
    THEN [kind |-> "ConsistencyFailure", responses |-> num_success, required |-> num_required]
    ELSE [kind |-> "Ok"]

\* A faulty fan-out: a failed replica is counted as well.
CountResultAlways(num_success, res) == num_success + 1

\* The `match res` of handle_consistency_distribution: only Ok(()) counts.
CountResult(num_success, res) ==
    IF res = "Ok" THEN num_success + 1 ELSE num_success

\* handle_consistency_distribution up to its first await: one future per
\* selected node, collected into FuturesUnordered.
Dispatch(h) ==
    /\ req[h].pc = "applied"
    /\ req' = [req EXCEPT ![h] =
          IF req[h].nodes = {}
          THEN [@ EXCEPT !.pc = "done", !.result = Outcome(0, 0)]
          ELSE [@ EXCEPT !.pc = "dispatch", !.sent = req[h].nodes,
                         !.pending = req[h].nodes]]
    /\ UNCHANGED <<hlc, topology, documents>>
    /\ UNCHANGED ksVars
    /\ UNCHANGED notFan

\* What a replica's RPC may end as: acknowledged; failed by the replica; or
\* never connected (the replica is dead).
Results == {"Ok", "RpcError", "TransportError"}

\* The replica's handler of the RPC: the same local apply, with the
\* timestamp of the payload.
PeerApply(p, kind, keys, ts) ==
    /\ documents' = [documents EXCEPT ![p] = DocsAfter(@, kind, keys, ts)]
    /\ update_counter' = [update_counter EXCEPT ![p] = wall_ms]
    /\ metadata' = [metadata EXCEPT ![p] = MetadataAfter(@, kind, keys, ts)]
    /\ state' = [state EXCEPT ![p] = StateAfter(@, kind, keys, ts)]

\* A faulty fan-out: the first failed future ends the loop and the failure is
\* returned while other futures are pending.
SettledFailFast(r, p, res) ==
    LET n == CountResult(r.num_success, res)
        left == r.pending \ {p}
        s == [r EXCEPT !.pending = left,
                       !.acked = IF res = "Ok" THEN @ \cup {p} ELSE @,
                       !.num_success = n]
    IN IF left = {} \/ res # "Ok"
       THEN [s EXCEPT !.pc = "done", !.result = Outcome(n, Cardinality(r.nodes))]
       ELSE s

\* The request record after the future of peer p has ended with res.
Settled(r, p, res) ==
    LET n == CountResult(r.num_success, res)
        left == r.pending \ {p}
        s == [r EXCEPT !.pending = left,
                       !.acked = IF res = "Ok" THEN @ \cup {p} ELSE @,
                       !.num_success = n]
    IN IF left = {}
       THEN [s EXCEPT !.pc = "done", !.result = Outcome(n, Cardinality(r.nodes))]
       ELSE s

\* A faulty fan-out: when the consistency level is not met, the local apply
\* is undone.
SettleRollsBack(h, p, res) ==
    /\ req[h].pc = "dispatch"
    /\ p \in req[h].pending
    /\ req' = [req EXCEPT ![h] = Settled(@, p, res)]
    /\ LET undone(set) == [k \in Keys |-> IF k \in req[h].keys THEN NoEntry ELSE set[k]]
           failed == req'[h].result.kind = "ConsistencyFailure"
       IN IF res = "Ok"
          THEN /\ documents' = [documents EXCEPT
                     ![p] = DocsAfter(@, req[h].kind, req[h].keys, req[h].ts),
                     ![Local] = IF failed THEN undone(@) ELSE @]
               /\ update_counter' = [update_counter EXCEPT ![p] = wall_ms]
               /\ metadata' = [metadata EXCEPT
                     ![p] = MetadataAfter(@, req[h].kind, req[h].keys, req[h].ts),
                     ![Local] = IF failed THEN undone(@) ELSE @]
               /\ state' = [state EXCEPT
                     ![p] = StateAfter(@, req[h].kind, req[h].keys, req[h].ts),
                     ![Local] = IF failed THEN undone(@) ELSE @]
          ELSE /\ documents' = [documents EXCEPT ![Local] = IF failed THEN undone(@) ELSE @]
               /\ metadata' = [metadata EXCEPT ![Local] = IF failed THEN undone(@) ELSE @]
               /\ state' = [state EXCEPT ![Local] = IF failed THEN undone(@) ELSE @]
               /\ UNCHANGED update_counter
    /\ UNCHANGED <<hlc, topology>>
    /\ UNCHANGED <<wall_ms, tasks, reply, call, calls_made, purge_calls, applied,
                   purged_at, alive, running>>
    /\ UNCHANGED notFan

\* A faulty fan-out: the call to a peer carries a timestamp of its own.
SettleOwnTimestamp(h, p, res) ==
    /\ req[h].pc = "dispatch"
    /\ p \in req[h].pending
    /\ req' = [req EXCEPT ![h] = Settled(@, p, res)]
    /\ IF res = "Ok"
       THEN PeerApply(p, req[h].kind, req[h].keys, (req[h].ts % MaxTs) + 1)
       ELSE UNCHANGED <<documents, update_counter, metadata, state>>
    /\ UNCHANGED <<hlc, topology>>
    /\ UNCHANGED <<wall_ms, tasks, reply, call, calls_made, purge_calls, applied,
                   purged_at, alive, running>>
    /\ UNCHANGED notFan

\* `while let Some(res) = requests.next().await`: the future of peer p ends.
\* The peer has applied the mutation exactly when it acknowledges.  After
\* the last future the loop ends and the result is returned.
Settle(h, p, res) ==
    /\ req[h].pc = "dispatch"
    /\ p \in req[h].pending
    /\ req' = [req EXCEPT ![h] = Settled(@, p, res)]
    /\ IF res = "Ok"
       THEN PeerApply(p, req[h].kind, req[h].keys, req[h].ts)
       ELSE UNCHANGED <<documents, update_counter, metadata, state>>
    /\ UNCHANGED <<hlc, topology>>
    /\ UNCHANGED <<wall_ms, tasks, reply, call, calls_made, purge_calls, applied,
                   purged_at, alive, running>>
    /\ UNCHANGED notFan

FanStep ==
    \/ \E members \in Memberships : SetNodes(members)
    \/ \E h \in Handles, kind \in Kinds, level \in Levels :
          \E keys \in KeysOf(kind), nodes \in SUBSET Peers :
              SelectNodes(h, kind, keys, level, nodes)
    \/ \E h \in Handles, kind \in Kinds, level \in Levels :
          \E keys \in KeysOf(kind) : SelectFails(h, kind, keys, level)
    \/ \E h \in Handles : GetTime(h)
    \/ \E h \in Handles : LocalApply(h)
    \/ \E h \in Handles : LocalApplyFails(h)
    \/ \E h \in Handles : Dispatch(h)
    \/ \E h \in Handles, p \in Peers, res \in Results : Settle(h, p, res)


\* ------------------------------------------------------ anti-entropy
\* OrSWotSet::diff against the snapshot of a peer: the keys the peer holds a
\* dominating live entry for (fetched from the peer) and the keys it holds a
\* dominating tombstone for.
Diff(set, other) ==
    [changed |-> {k \in Keys : other[k].ts > set[k].ts /\ ~other[k].dead},
     removed |-> {k \in Keys : other[k].ts > set[k].ts /\ other[k].dead}]

\* OrSWotSet::merge: pointwise dominance.
Merge(set, other) ==
    [k \in Keys |-> IF other[k].ts > set[k].ts THEN other[k] ELSE set[k]]

\* `failed` records that the poller's sync ended with an error;
\* `delete_task` and `upsert` are the outcomes of the task that marks the
\* tombstones and of the fetch-and-upsert ("none" while not finished), and
\* `purged` the keys the merge returned.
IdlePoll == [pc |-> "tick", new |-> 0, snapshot |-> EmptySet,
             changed |-> {}, removed |-> {}, failed |-> FALSE,
             delete_task |-> "none", upsert |-> "none", purged |-> {}]

SyncInit ==
    /\ previous_state = [n \in SyncNodes |-> 0]
    /\ poll = [n \in SyncNodes |-> IdlePoll]
    /\ cycle_done = [n \in SyncNodes |-> FALSE]

\* No write is running and none can start.
WritesStopped ==
    /\ calls_made = MaxCalls
    /\ \A c \in Callers : call[c].pc \in {"idle", "done"}

\* A faulty test: a keyspace counts as changed only when the two counters differ.
ChangedStrict(new, old) == new # old

\* A faulty test: a keyspace counts as changed when its counter has grown
\* (or one of the two counters is 0).
ChangedIfGreater(new, old) == new > old \/ new = 0 \/ old = 0

\* handle_node_state_change: `if new == old && !(new == 0 || old == 0) { continue; }`
Changed(new, old) == ~(new = old /\ ~(new = 0 \/ old = 0))

\* The work of the tick of poller n has ended.  handle_node_state_change
\* stays in `while let Ok(..) = rx.recv_async().await`: it still holds the
\* sender `tx` it cloned for the spawned tasks, so the channel never
\* disconnects, the function never returns and the poller never reaches
\* another interval tick.
TickEnds(n) ==
    /\ poll' = [poll EXCEPT ![n] = [IdlePoll EXCEPT !.pc = "recv"]]
    /\ cycle_done' = [cycle_done EXCEPT ![n] = @ \/ WritesStopped]

\* interval.tick(), the probe of the peer's counter, and the test of
\* handle_node_state_change: an unchanged keyspace is skipped.
Probe(n) ==
    /\ poll[n].pc = "tick"
    /\ LET new == update_counter[PeerOf(n)] IN
         IF Changed(new, previous_state[n])
         THEN /\ poll' = [poll EXCEPT ![n].pc = "get_doc_set", ![n].new = new]
              /\ UNCHANGED cycle_done
         ELSE /\ cycle_done' = [cycle_done EXCEPT ![n] = @ \/ WritesStopped]
              /\ poll' = [poll EXCEPT ![n].pc = "recv"]
    /\ UNCHANGED previous_state
    /\ UNCHANGED <<ksVars, documents>>
    /\ UNCHANGED notSync

\* rpc.sync.get_doc_set: the peer sends Op::Serialize to its actor.
GetDocSet(n) ==
    /\ poll[n].pc = "get_doc_set"
    /\ Len(tasks[PeerOf(n)]) < InboxCapacity
    /\ tasks' = [tasks EXCEPT ![PeerOf(n)] =
                    Append(@, [op |-> "Serialize", pairs |-> << >>, tx |-> PollerOf(n)])]
    /\ poll' = [poll EXCEPT ![n].pc = "await_doc_set"]
    /\ UNCHANGED <<previous_state, cycle_done, documents>>
    /\ UNCHANGED <<wall_ms, update_counter, metadata, state, reply, call, calls_made,
                   purge_calls, applied, purged_at, alive, running>>
    /\ UNCHANGED notSync

\* A faulty sync: with nothing changed and nothing removed it still goes on
\* to the documents and the merge.
DiffDocSetGoesOn(n) ==
    /\ poll[n].pc = "await_doc_set"
    /\ reply[PollerOf(n)].sent
    /\ tasks[n] = << >>
    /\ reply' = [reply EXCEPT ![PollerOf(n)] = NoReply]
    /\ LET snapshot == reply[PollerOf(n)].set
           d == Diff(state[n], snapshot)
       IN poll' = [poll EXCEPT ![n].pc = "sync", ![n].snapshot = snapshot,
                               ![n].changed = d.changed, ![n].removed = d.removed]
    /\ UNCHANGED <<previous_state, cycle_done, documents>>
    /\ UNCHANGED <<wall_ms, update_counter, metadata, state, tasks, call, calls_made,
                   purge_calls, applied, purged_at, alive, running>>
    /\ UNCHANGED notSync

\* handle_shard_change: the snapshot arrives and is diffed against the local
\* set, once the local actor has served the operations in its inbox.  With
\* nothing changed and nothing removed the sync returns Ok and the probed
\* counter is recorded.
DiffDocSet(n) ==
    /\ poll[n].pc = "await_doc_set"
    /\ reply[PollerOf(n)].sent
    /\ tasks[n] = << >>
    /\ reply' = [reply EXCEPT ![PollerOf(n)] = NoReply]
    /\ LET snapshot == reply[PollerOf(n)].set
           d == Diff(state[n], snapshot)
       IN IF d.changed = {} /\ d.removed = {}
          THEN /\ previous_state' = [previous_state EXCEPT ![n] = poll[n].new]
               /\ TickEnds(n)
          ELSE /\ poll' = [poll EXCEPT ![n].pc = "sync", ![n].snapshot = snapshot,
                                       ![n].changed = d.changed,
                                       ![n].removed = d.removed]
               /\ UNCHANGED <<previous_state, cycle_done>>
    /\ UNCHANGED documents
    /\ UNCHANGED <<wall_ms, update_counter, metadata, state, tasks, call, calls_made,
                   purge_calls, applied, purged_at, alive, running>>
    /\ UNCHANGED notSync

\* handle_shard_change: the removed documents are marked as tombstones and
\* the changed ones fetched from the peer and upserted.
SyncDocs(n) ==
    /\ poll[n].pc = "sync"
    /\ documents' = [documents EXCEPT ![n] =
          [k \in Keys |-> IF k \in poll[n].changed \cup poll[n].removed
                          THEN poll[n].snapshot[k] ELSE @[k]]]
    /\ poll' = [poll EXCEPT ![n].pc = "merge"]
    /\ UNCHANGED <<previous_state, cycle_done>>
    /\ UNCHANGED ksVars
    /\ UNCHANGED notSync

\* handle_shard_change: shard_group.merge(shard_id, state); the sync returns
\* Ok and handle_node_state_change records the probed counter.
MergeDocSet(n) ==
    /\ poll[n].pc = "merge"
    /\ tasks[n] = << >>
    /\ state' = [state EXCEPT ![n] = Merge(@, poll[n].snapshot)]
    /\ previous_state' = [previous_state EXCEPT ![n] = poll[n].new]
    /\ TickEnds(n)
    /\ UNCHANGED documents
    /\ UNCHANGED <<wall_ms, update_counter, metadata, tasks, reply, call, calls_made,
                   purge_calls, applied, purged_at, alive, running>>
    /\ UNCHANGED notSync

\* The key the two nodes write.
SyncKeys == {1}

\* Two nodes that take writes through their keyspace handles and poll each
\* other.  HLCs are unique: the i-th write carries the HLC i.
SyncStep ==
    \/ Tick
    \/ \E c \in Callers, n \in SyncNodes, k \in SyncKeys : Put(c, n, k, calls_made + 1)
    \/ \E c \in Callers, n \in SyncNodes, k \in SyncKeys : Del(c, n, k, calls_made + 1)
    \/ \E c \in Callers : StoreMetadata(c)
    \/ \E c \in Callers : Send(c)
    \/ \E c \in Callers : Await(c)
    \/ \E n \in SyncNodes : RunStateActor(n)
    \/ \E n \in SyncNodes : Probe(n)
    \/ \E n \in SyncNodes : GetDocSet(n)
    \/ \E n \in SyncNodes : DiffDocSet(n)
    \/ \E n \in SyncNodes : SyncDocs(n)
    \/ \E n \in SyncNodes : MergeDocSet(n)

\* ------------------------------------------------- the poller under failure
\* The steps of handle_shard_change that may return an error: get_doc_set;
\* the arrival of the snapshot and diff; mark_tombstone_documents, fetch_docs
\* and upsert_documents; merge; clear_tombstone_documents.
FailSteps == {"get_doc_set", "diff", "sync", "merge", "clear_tombstones"}

\* handle_shard_change returns Err at `step`; the spawned task logs it and
\* sends nothing to handle_node_state_change, whose last-known counter
\* becomes `recorded`.  What the step had written before it failed stays.
SyncFailsWith(n, step, recorded) ==
    /\ CASE step = "get_doc_set" ->
              /\ poll[n].pc = "get_doc_set"
              /\ UNCHANGED <<reply, documents, state>>
         [] step = "diff" ->
              /\ poll[n].pc = "await_doc_set"
              /\ reply[PollerOf(n)].sent
              /\ reply' = [reply EXCEPT ![PollerOf(n)] = NoReply]
              /\ UNCHANGED <<documents, state>>
         [] step = "sync" ->
              /\ poll[n].pc = "sync"
              /\ \E written \in SUBSET (poll[n].changed \cup poll[n].removed) :
                    documents' = [documents EXCEPT ![n] =
                        [k \in Keys |-> IF k \in written
                                        THEN poll[n].snapshot[k] ELSE @[k]]]
              /\ UNCHANGED <<reply, state>>
         [] step = "merge" ->
              /\ poll[n].pc = "merge"
              /\ UNCHANGED <<reply, documents, state>>
         [] step = "clear_tombstones" ->
              /\ poll[n].pc = "merge"
              /\ tasks[n] = << >>
              /\ state' = [state EXCEPT ![n] = Merge(@, poll[n].snapshot)]
              /\ UNCHANGED <<reply, documents>>
    /\ poll' = [poll EXCEPT ![n] = [IdlePoll EXCEPT !.pc = "recv", !.failed = TRUE]]
    /\ previous_state' = [previous_state EXCEPT ![n] = recorded]
    /\ UNCHANGED cycle_done
    /\ UNCHANGED <<wall_ms, update_counter, metadata, tasks, call, calls_made,
                   purge_calls, applied, purged_at, alive, running>>
    /\ UNCHANGED notSync

\* A faulty poller: the probed counter is recorded although the sync failed.
SyncFailsAdvances(n, step) == SyncFailsWith(n, step, poll[n].new)

\* `if let Err(e) = fut.await { error!(..) } else { tx.send_async((shard_id, new)) }`:
\* nothing is recorded for a sync that failed.
SyncFails(n, step) == SyncFailsWith(n, step, previous_state[n])

\* get_shard_changes returns Err: "Poller shutting down for node." and `break`.
ProbeFails(n) ==
    /\ poll[n].pc = "tick"
    /\ poll' = [poll EXCEPT ![n].pc = "stopped"]
    /\ UNCHANGED <<previous_state, cycle_done>>
    /\ UNCHANGED <<ksVars, documents>>
    /\ UNCHANGED notSync

\* The node whose poller is followed; its peer is node 2.
PollNodes == {1}

\* Node 1 polls node 2 while both take writes; a probe and every step of a
\* sync may fail.
PollStep ==
    \/ Tick
    \/ \E c \in Callers, n \in SyncNodes, k \in SyncKeys : Put(c, n, k, calls_made + 1)
    \/ \E c \in Callers, n \in SyncNodes, k \in SyncKeys : Del(c, n, k, calls_made + 1)
    \/ \E c \in Callers : StoreMetadata(c)
    \/ \E c \in Callers : Send(c)
    \/ \E c \in Callers : Await(c)
    \/ \E n \in SyncNodes : RunStateActor(n)
    \/ \E n \in PollNodes : Probe(n)
    \/ \E n \in PollNodes : ProbeFails(n)
    \/ \E n \in PollNodes : GetDocSet(n)
    \/ \E n \in PollNodes : DiffDocSet(n)
    \/ \E n \in PollNodes : SyncDocs(n)
    \/ \E n \in PollNodes : MergeDocSet(n)
    \/ \E n \in PollNodes, step \in FailSteps : SyncFails(n, step)

\* ------------------------------------------------ the steps of a shard sync
\* handle_shard_change step by step, from the diff on.  The documents of the
\* keys in `keys` become those of the peer's snapshot.
WriteDocs(n, keys) ==
    documents' = [documents EXCEPT ![n] =
        [k \in Keys |-> IF k \in keys THEN poll[n].snapshot[k] ELSE @[k]]]

\* The spawned delete task has not finished; it goes on when the sync that
\* spawned it has returned on a failed upsert, for nothing aborts it.
DeleteTaskRuns(n) ==
    /\ poll[n].delete_task = "none"
    /\ \/ poll[n].pc = "sync"
       \/ poll[n].pc = "recv" /\ poll[n].upsert = "err"

\* delete_task: mark_tombstone_documents(removed), Ok at once when nothing
\* was removed.
MarkTombstones(n) ==
    /\ DeleteTaskRuns(n)
    /\ WriteDocs(n, poll[n].removed)
    /\ poll' = [poll EXCEPT ![n].delete_task = "ok"]
    /\ UNCHANGED <<previous_state, cycle_done>>
    /\ UNCHANGED ksVars
    /\ UNCHANGED notSync

\* delete_task: mark_tombstone_documents returns Err, having marked some of
\* the keys.
MarkFails(n) ==
    /\ DeleteTaskRuns(n)
    /\ poll[n].removed # {}
    /\ \E written \in SUBSET poll[n].removed :
          /\ written # poll[n].removed
          /\ WriteDocs(n, written)
    /\ poll' = [poll EXCEPT ![n].delete_task = "err"]
    /\ UNCHANGED <<previous_state, cycle_done>>
    /\ UNCHANGED ksVars
    /\ UNCHANGED notSync

\* fetch_docs and upsert_documents of every batch, skipped when nothing
\* changed.
UpsertDocs(n) ==
    /\ poll[n].pc = "sync"
    /\ poll[n].upsert = "none"
    /\ WriteDocs(n, poll[n].changed)
    /\ poll' = [poll EXCEPT ![n].upsert = "ok"]
    /\ UNCHANGED <<previous_state, cycle_done>>
    /\ UNCHANGED ksVars
    /\ UNCHANGED notSync

\* fetch_docs, a batch of the stream or upsert_documents returns Err: `?`
\* returns from handle_shard_change at once, the delete task is not awaited.
UpsertFails(n) ==
    /\ poll[n].pc = "sync"
    /\ poll[n].upsert = "none"
    /\ poll[n].changed # {}
    /\ \E written \in SUBSET poll[n].changed :
          /\ written # poll[n].changed
          /\ WriteDocs(n, written)
    /\ poll' = [poll EXCEPT ![n].pc = "recv", ![n].upsert = "err", ![n].failed = TRUE]
    /\ UNCHANGED <<previous_state, cycle_done>>
    /\ UNCHANGED ksVars
    /\ UNCHANGED notSync

\* A faulty join: the sync goes on to the merge whatever the delete task
\* returned.
JoinDeleteTaskAnyResult(n) ==
    /\ poll[n].pc = "sync"
    /\ poll[n].upsert = "ok"
    /\ poll[n].delete_task # "none"
    /\ poll' = [poll EXCEPT ![n].pc = "merge"]
    /\ UNCHANGED <<previous_state, cycle_done, documents>>
    /\ UNCHANGED ksVars
    /\ UNCHANGED notSync

\* `delete_task.await??` after the upserts: the task has returned Ok.
JoinDeleteTask(n) ==
    /\ poll[n].pc = "sync"
    /\ poll[n].upsert = "ok"
    /\ poll[n].delete_task = "ok"
    /\ poll' = [poll EXCEPT ![n].pc = "merge"]
    /\ UNCHANGED <<previous_state, cycle_done, documents>>
    /\ UNCHANGED ksVars
    /\ UNCHANGED notSync

\* `delete_task.await??`: the task has returned Err and the sync returns it.
JoinFails(n) ==
    /\ poll[n].pc = "sync"
    /\ poll[n].upsert = "ok"
    /\ poll[n].delete_task = "err"
    /\ poll' = [poll EXCEPT ![n].pc = "recv", ![n].failed = TRUE]
    /\ UNCHANGED <<previous_state, cycle_done, documents>>
    /\ UNCHANGED ksVars
    /\ UNCHANGED notSync

\* shard_group.merge(shard_id, state): the peer's snapshot is merged into the
\* local set, the tombstones no younger than the horizon are purged from it
\* and their keys returned.
MergeShard(n) ==
    /\ poll[n].pc = "merge"
    /\ tasks[n] = << >>
    /\ \E T \in 0..MaxTs :
          LET merged == Merge(state[n], poll[n].snapshot)
              keys == OldDeletes(merged, T)
          IN /\ state' = [state EXCEPT ![n] = PurgeOldDeletes(merged, keys)]
             /\ purged_at' = [purged_at EXCEPT ![n] =
                   [k \in Keys |-> IF k \in keys THEN merged[k].ts ELSE @[k]]]
             /\ poll' = [poll EXCEPT ![n].pc = "clear_tombstones", ![n].purged = keys]
    /\ UNCHANGED <<previous_state, cycle_done, documents>>
    /\ UNCHANGED <<wall_ms, update_counter, metadata, tasks, reply, call, calls_made,
                   purge_calls, applied, alive, running>>
    /\ UNCHANGED notSync

\* shard_group.merge returns Err.
MergeFails(n) ==
    /\ poll[n].pc = "merge"
    /\ poll' = [poll EXCEPT ![n].pc = "recv", ![n].failed = TRUE]
    /\ UNCHANGED <<previous_state, cycle_done, documents>>
    /\ UNCHANGED ksVars
    /\ UNCHANGED notSync

\* A faulty end of the sync: the counter recorded is the one the peer holds
\* when the sync ends.
ClearTombstonesRecordsLatest(n) ==
    /\ poll[n].pc = "clear_tombstones"
    /\ documents' = [documents EXCEPT ![n] =
          [k \in Keys |-> IF k \in poll[n].purged THEN NoEntry ELSE @[k]]]
    /\ previous_state' = [previous_state EXCEPT ![n] = update_counter[PeerOf(n)]]
    /\ TickEnds(n)
    /\ UNCHANGED ksVars
    /\ UNCHANGED notSync

\* clear_tombstone_documents(purged_keys); handle_shard_change returns Ok, the
\* task sends (shard_id, new) and handle_node_state_change stores the probed
\* counter in previous_state.
ClearTombstones(n) ==
    /\ poll[n].pc = "clear_tombstones"
    /\ documents' = [documents EXCEPT ![n] =
          [k \in Keys |-> IF k \in poll[n].purged THEN NoEntry ELSE @[k]]]
    /\ previous_state' = [previous_state EXCEPT ![n] = poll[n].new]
    /\ TickEnds(n)
    /\ UNCHANGED ksVars
    /\ UNCHANGED notSync

\* clear_tombstone_documents returns Err, having cleared some of the keys.
ClearFails(n) ==
    /\ poll[n].pc = "clear_tombstones"
    /\ poll[n].purged # {}
    /\ \E cleared \in SUBSET poll[n].purged :
          /\ cleared # poll[n].purged
          /\ documents' = [documents EXCEPT ![n] =
                [k \in Keys |-> IF k \in cleared THEN NoEntry ELSE @[k]]]
    /\ poll' = [poll EXCEPT ![n].pc = "recv", ![n].failed = TRUE]
    /\ UNCHANGED <<previous_state, cycle_done>>
    /\ UNCHANGED ksVars
    /\ UNCHANGED notSync

\* The steps before the documents that may fail.
EarlyFailSteps == {"get_doc_set", "diff"}

\* Node 1 polls node 2, which takes puts and deletes of both keys; every step
\* of the sync is a step of its own and may fail.
ShardStep ==
    \/ Tick
    \/ \E c \in Callers, k \in Keys : Put(c, PeerOf(1), k, calls_made + 1)
    \/ \E c \in Callers, k \in Keys : Del(c, PeerOf(1), k, calls_made + 1)
    \/ \E c \in Callers : StoreMetadata(c)
    \/ \E c \in Callers : Send(c)
    \/ \E c \in Callers : Await(c)
    \/ \E n \in SyncNodes : RunStateActor(n)
    \/ \E n \in PollNodes : Probe(n)
    \/ \E n \in PollNodes : ProbeFails(n)
    \/ \E n \in PollNodes : GetDocSet(n)
    \/ \E n \in PollNodes : DiffDocSet(n)
    \/ \E n \in PollNodes, step \in EarlyFailSteps : SyncFails(n, step)
    \/ \E n \in PollNodes : MarkTombstones(n)
    \/ \E n \in PollNodes : MarkFails(n)
    \/ \E n \in PollNodes : UpsertDocs(n)
    \/ \E n \in PollNodes : UpsertFails(n)
    \/ \E n \in PollNodes : JoinDeleteTask(n)
    \/ \E n \in PollNodes : JoinFails(n)
    \/ \E n \in PollNodes : MergeShard(n)
    \/ \E n \in PollNodes : MergeFails(n)
    \/ \E n \in PollNodes : ClearTombstones(n)
    \/ \E n \in PollNodes : ClearFails(n)

\* ------------------------------------------- the shard tasks of a tick
Shards == 1..NumShards

\* flume::bounded(2): the results channel of a tick.
ResultsCapacity == 2

\* Semaphore::new(1).
Permits == 1

NoTask == [pc |-> "none", new |-> 0]

SemInit ==
    /\ shard_poller = [p \in Peers |-> "tick"]
    /\ shard_tasks = [p \in Peers |-> [s \in Shards |-> NoTask]]
    /\ concurrency_limiter = [p \in Peers |-> Permits]
    /\ shard_rx = [p \in Peers |-> << >>]
    /\ shard_previous_state = [p \in Peers |-> [s \in Shards |-> 0]]

\* interval.tick(), get_shard_changes and the `for` of
\* handle_node_state_change: a task is spawned for every shard whose counter
\* passes the test; the function then waits for the results.
ProbeShards(p, new_state) ==
    /\ shard_poller[p] = "tick"
    /\ shard_poller' = [shard_poller EXCEPT ![p] = "recv"]
    /\ shard_tasks' = [shard_tasks EXCEPT ![p] =
          [s \in Shards |->
              IF Changed(new_state[s], shard_previous_state[p][s])
              THEN [pc |-> "acquire", new |-> new_state[s]]
              ELSE NoTask]]
    /\ concurrency_limiter' = [concurrency_limiter EXCEPT ![p] = Permits]
    /\ shard_rx' = [shard_rx EXCEPT ![p] = << >>]
    /\ UNCHANGED shard_previous_state
    /\ UNCHANGED notSem

\* get_shard_changes returns Err: the poller breaks out of its loop.
ProbeShardsFails(p) ==
    /\ shard_poller[p] = "tick"
    /\ shard_poller' = [shard_poller EXCEPT ![p] = "stopped"]
    /\ UNCHANGED <<shard_tasks, concurrency_limiter, shard_rx, shard_previous_state>>
    /\ UNCHANGED notSem

\* A faulty task: handle_shard_change is started without a permit.
AcquireWithoutPermit(p, s) ==
    /\ shard_tasks[p][s].pc = "acquire"
    /\ shard_tasks' = [shard_tasks EXCEPT ![p][s].pc = "sync"]
    /\ concurrency_limiter' = [concurrency_limiter EXCEPT ![p] =
                                   IF @ > 0 THEN @ - 1 ELSE @]
    /\ UNCHANGED <<shard_poller, shard_rx, shard_previous_state>>
    /\ UNCHANGED notSem

\* `let _permit = concurrency_limiter.acquire().await;` then
\* handle_shard_change is started.
Acquire(p, s) ==
    /\ shard_tasks[p][s].pc = "acquire"
    /\ concurrency_limiter[p] > 0
    /\ shard_tasks' = [shard_tasks EXCEPT ![p][s].pc = "sync"]
    /\ concurrency_limiter' = [concurrency_limiter EXCEPT ![p] = @ - 1]
    /\ UNCHANGED <<shard_poller, shard_rx, shard_previous_state>>
    /\ UNCHANGED notSem

\* handle_shard_change returns Ok: the task goes on to send its result.
ShardSyncOk(p, s) ==
    /\ shard_tasks[p][s].pc = "sync"
    /\ shard_tasks' = [shard_tasks EXCEPT ![p][s].pc = "send"]
    /\ UNCHANGED <<shard_poller, concurrency_limiter, shard_rx, shard_previous_state>>
    /\ UNCHANGED notSem

\* handle_shard_change returns Err: the task logs it and ends, which drops
\* its permit.
ShardSyncFails(p, s) ==
    /\ shard_tasks[p][s].pc = "sync"
    /\ shard_tasks' = [shard_tasks EXCEPT ![p][s].pc = "failed"]
    /\ concurrency_limiter' = [concurrency_limiter EXCEPT ![p] = @ + 1]
    /\ UNCHANGED <<shard_poller, shard_rx, shard_previous_state>>
    /\ UNCHANGED notSem

\* `tx.send_async((shard_id, new)).await`, then the task ends and drops its
\* permit.
SendResult(p, s) ==
    /\ shard_tasks[p][s].pc = "send"
    /\ Len(shard_rx[p]) < ResultsCapacity
    /\ shard_rx' = [shard_rx EXCEPT ![p] = Append(@, <<s, shard_tasks[p][s].new>>)]
    /\ shard_tasks' = [shard_tasks EXCEPT ![p][s].pc = "done"]
    /\ concurrency_limiter' = [concurrency_limiter EXCEPT ![p] = @ + 1]
    /\ UNCHANGED <<shard_poller, shard_previous_state>>
    /\ UNCHANGED notSem

\* `while let Ok((shard_id, aligned_ts)) = rx.recv_async().await`:
\* previous_state[shard_id] = aligned_ts.
RecvResult(p) ==
    /\ shard_poller[p] = "recv"
    /\ shard_rx[p] # << >>
    /\ LET res == Head(shard_rx[p]) IN
          shard_previous_state' = [shard_previous_state EXCEPT ![p][res[1]] = res[2]]
    /\ shard_rx' = [shard_rx EXCEPT ![p] = Tail(@)]
    /\ UNCHANGED <<shard_poller, shard_tasks, concurrency_limiter>>
    /\ UNCHANGED notSem

\* The pollers node 1 runs for its two peers, each syncing the shards of its
\* peer.
SemStep ==
    \/ \E p \in Peers, new_state \in [Shards -> 0..MaxWall] : ProbeShards(p, new_state)
    \/ \E p \in Peers : ProbeShardsFails(p)
    \/ \E p \in Peers, s \in Shards : Acquire(p, s)
    \/ \E p \in Peers, s \in Shards : ShardSyncOk(p, s)
    \/ \E p \in Peers, s \in Shards : ShardSyncFails(p, s)
    \/ \E p \in Peers, s \in Shards : SendResult(p, s)
    \/ \E p \in Peers : RecvResult(p)

\* ------------------------------------------------ the membership watcher
\* The node ids and the addresses members announce: a member is a pair
\* (node_id, public_addr).
WatchIds == {"a", "b"}
WatchPairs == WatchIds \X Peers

AddrsOf(pairs) == {pair[2] : pair \in pairs}

IdleWatcher == [pc |-> "idle", new |-> {}, removed |-> {}, added |-> {}, handle |-> 0]

WatchInit ==
    /\ last_network_set = {}
    /\ poller_handles = [addr \in Peers |-> 0]
    /\ node_pollers = << >>
    /\ connected = {}
    /\ watcher = IdleWatcher
    /\ updates = 0

\* ShutdownHandle::kill of the poller with handle h, if there is one.
Kill(pollers, h) ==
    IF h = 0 THEN pollers
    ELSE [pollers EXCEPT ![h].status = IF @ = "running" THEN "cancelled" ELSE @]

\* `changes.next().await` yields the members; new_network_set is built and
\* node_selector.set_nodes(data_centers) called.
NextMembers(members) ==
    /\ watcher.pc = "idle"
    /\ updates < MaxUpdates
    /\ Len(node_pollers) + Cardinality(members \ last_network_set) <= MaxPollers
    /\ watcher' = [pc |-> "update", new |-> members,
                   removed |-> last_network_set \ members,
                   added |-> members \ last_network_set, handle |-> 0]
    /\ topology' = AddrsOf(members)
    /\ UNCHANGED <<last_network_set, poller_handles, node_pollers, connected, updates>>
    /\ UNCHANGED notWatch

\* One pass of `for (node_id, addr) in last_network_set.difference(..)`:
\* network.disconnect(addr), and the handle registered for addr, if any, is
\* removed and killed.
RemoveClient(pair) ==
    /\ watcher.pc = "update"
    /\ pair \in watcher.removed
    /\ connected' = connected \ {pair[2]}
    /\ node_pollers' = Kill(node_pollers, poller_handles[pair[2]])
    /\ poller_handles' = [poller_handles EXCEPT ![pair[2]] = 0]
    /\ watcher' = [watcher EXCEPT !.removed = @ \ {pair}]
    /\ UNCHANGED <<last_network_set, updates, topology>>
    /\ UNCHANGED notWatch

\* A pass of `for (node_id, addr) in new_network_set.difference(..)` up to
\* `tokio::spawn(poller::node_poller(state))`: a channel to addr is connected
\* (lazily if the connection fails) and a poller is spawned for the pair; its
\* shutdown handle is held by the watcher.
SpawnNodePoller(pair) ==
    /\ watcher.pc = "update"
    /\ watcher.removed = {}
    /\ watcher.handle = 0
    /\ pair \in watcher.added
    /\ connected' = connected \cup {pair[2]}
    /\ node_pollers' =
          Append(node_pollers,
                 [node_id |-> pair[1], addr |-> pair[2], status |-> "running"])
    /\ watcher' = [watcher EXCEPT !.handle = Len(node_pollers) + 1]
    /\ UNCHANGED <<last_network_set, poller_handles, updates, topology>>
    /\ UNCHANGED notWatch

\* The rest of the pass: `poller_handles.insert(*addr, handle)` registers the
\* handle of the spawned poller for its address, and the handle it replaces,
\* if any, is killed.
InsertPollerHandle ==
    /\ watcher.pc = "update"
    /\ watcher.handle # 0
    /\ LET task == node_pollers[watcher.handle] IN
          /\ node_pollers' = Kill(node_pollers, poller_handles[task.addr])
          /\ poller_handles' = [poller_handles EXCEPT ![task.addr] = watcher.handle]
          /\ watcher' = [watcher EXCEPT
                           !.added = @ \ {<<task.node_id, task.addr>>},
                           !.handle = 0]
    /\ UNCHANGED <<last_network_set, connected, updates, topology>>
    /\ UNCHANGED notWatch

\* `last_network_set = new_network_set;` and the watcher waits for the next
\* update.
SetLastNetworkSet ==
    /\ watcher.pc = "update"
    /\ watcher.removed = {} /\ watcher.added = {}
    /\ last_network_set' = watcher.new
    /\ watcher' = IdleWatcher
    /\ updates' = updates + 1
    /\ UNCHANGED <<poller_handles, node_pollers, connected, topology>>
    /\ UNCHANGED notWatch

\* A node poller that was told to shut down finishes.
NodePollerExits(i) ==
    /\ i \in 1..Len(node_pollers)
    /\ node_pollers[i].status = "cancelled"
    /\ node_pollers' = [node_pollers EXCEPT ![i].status = "finished"]
    /\ UNCHANGED <<last_network_set, poller_handles, connected, watcher, updates,
                   topology>>
    /\ UNCHANGED notWatch

\* The watcher of node 1 takes membership updates while the pollers it
\* spawned run.
WatchStep ==
    \/ \E members \in SUBSET WatchPairs : NextMembers(members)
    \/ \E pair \in WatchPairs : RemoveClient(pair)
    \/ \E pair \in WatchPairs : SpawnNodePoller(pair)
    \/ InsertPollerHandle
    \/ SetLastNetworkSet
    \/ \E i \in 1..MaxPollers : NodePollerExits(i)

\* ------------------------------------------- the skip test over its inputs
\* handle_node_state_change as a function of the probed counter and of the
\* last-known counter it is called with: node 1 polls node 2, which takes
\* puts, and the last-known counter of the call is any value of the domain.
SkipTestStep ==
    \/ Tick
    \/ \E c \in Callers, k \in SyncKeys : Put(c, PeerOf(1), k, calls_made + 1)
    \/ \E c \in Callers : StoreMetadata(c)
    \/ \E c \in Callers : Send(c)
    \/ \E c \in Callers : Await(c)
    \/ \E n \in SyncNodes : RunStateActor(n)
    \/ \E n \in PollNodes : Probe(n)
    \/ \E n \in PollNodes : GetDocSet(n)
    \/ \E n \in PollNodes : DiffDocSet(n)
    \/ \E n \in PollNodes : SyncDocs(n)
    \/ \E n \in PollNodes : MergeDocSet(n)

\* ------------------------------------------------------------ specifications
Init == KsInit /\ GrpInit /\ FanInit /\ SyncInit /\ SemInit /\ WatchInit

SpecKeyspace == Init /\ [][KsStep]_vars

SpecGroup == Init /\ [][GrpStep]_vars

SpecFanout == Init /\ [][FanStep]_vars

SpecSync == Init /\ [][SyncStep]_vars

SpecPoller == Init /\ [][PollStep]_vars

\* The poller and the state actors are spawned tasks of the runtime, and an
\* awaited reply that was sent is taken: a poller that can take a step
\* eventually takes one, and so does an actor that can take a message.
PollerRuns(n) ==
    \/ Probe(n)
    \/ ProbeFails(n)
    \/ GetDocSet(n)
    \/ DiffDocSet(n)
    \/ SyncDocs(n)
    \/ MergeDocSet(n)
    \/ \E step \in FailSteps : SyncFails(n, step)

SpecPollerFair ==
    /\ Init
    /\ [][PollStep]_vars
    /\ \A n \in PollNodes : WF_vars(PollerRuns(n))
    /\ \A n \in SyncNodes : WF_vars(RunStateActor(n))

SpecShard == Init /\ [][ShardStep]_vars

SpecSemaphore == Init /\ [][SemStep]_vars

SpecWatcher == Init /\ [][WatchStep]_vars

\* The call of handle_node_state_change under test gets a last-known counter
\* from 0..MaxWall.
SkipTestInit ==
    /\ KsInit /\ GrpInit /\ FanInit /\ SemInit /\ WatchInit
    /\ poll = [n \in SyncNodes |-> IdlePoll]
    /\ cycle_done = [n \in SyncNodes |-> FALSE]
    /\ \E old \in 0..MaxWall :
          previous_state = [n \in SyncNodes |-> IF n \in PollNodes THEN old ELSE 0]

SpecSkipTest == SkipTestInit /\ [][SkipTestStep]_vars

SpecStamp == Init /\ [][StampStep]_vars

InboxInit == KsInitSenders /\ GrpInit /\ FanInit /\ SyncInit /\ SemInit /\ WatchInit

\* The senders and the actor are tasks of the runtime: a sender that can
\* enqueue or take its reply, and an actor that can take a message, does.
SpecInbox ==
    /\ InboxInit
    /\ [][InboxStep]_vars
    /\ WF_vars(RunStateActor(1))
    /\ WF_vars(\E c \in Senders : SendInTurn(c))
    /\ WF_vars(\E c \in Senders : Await(c))

\* The actor is a spawned task of the runtime: whenever it can take a message
\* or leave its loop it eventually does.
SpecActor ==
    /\ Init
    /\ [][ActorStep]_vars
    /\ WF_vars(RunStateActor(1))
    /\ WF_vars(ActorExit(1))

\* ------------------------------------------------ keyspace layer: claims
Mutating == {"Set", "MultiSet", "Del", "MultiDel"}

\* Every call has returned and the actor has nothing left to do.
AllReturned ==
    /\ \A c \in Callers : call[c].pc \in {"idle", "done"}
    /\ \A n \in Nodes : tasks[n] = << >>

\* C7: once put, multi_put, del and multi_del calls have all returned, the
\* storage metadata and the CRDT set hold the same (ts, dead) for every key
\* the set holds, whatever the order of the timestamps.
C7_MetadataAgreesWithSet ==
    (AllReturned /\ purge_calls = 0) =>
        \A n \in Nodes, k \in Keys :
            state[n][k] # NoEntry => metadata[n][k] = state[n][k]

\* C9: a put, multi_put, del or multi_del whose storage write failed has
\* returned the storage error, and its Op was never enqueued: no message of
\* the call is in the inbox and the actor has answered none.
C9_StorageFailureSkipsActor ==
    \A c \in Callers :
        (call[c].op \in Mutating /\ call[c].stored = "err") =>
            /\ call[c].pc = "done"
            /\ call[c].result = "StorageError"
            /\ \A i \in 1..Len(tasks[call[c].node]) : tasks[call[c].node][i].tx # c
            /\ ~reply[c].sent

\* A failed call beside a call of the other caller that reached the actor.
C9_Witness ==
    \E c \in Callers, d \in Callers :
        /\ c # d
        /\ call[c].op \in Mutating /\ call[c].stored = "err"
        /\ call[d].op \in Mutating /\ call[d].result = "Ok"
        /\ state[call[d].node] # EmptySet

AppliedTo(n, k) == {o \in applied[n] : o.key = k}

\* The entry of key k is that of an applied operation with the greatest HLC.
GreatestWins(n, k) ==
    IF AppliedTo(n, k) = {} THEN state[n][k] = NoEntry
    ELSE /\ [key |-> k, ts |-> state[n][k].ts, dead |-> state[n][k].dead] \in AppliedTo(n, k)
         /\ \A o \in AppliedTo(n, k) : o.ts <= state[n][k].ts

\* A step changes the entry of a key only to a greater HLC (or purges it).
OnlyLaterReplaces ==
    \A n \in Nodes, k \in Keys :
        state'[n][k] # state[n][k] =>
            \/ state'[n][k].ts > state[n][k].ts
            \/ state'[n][k] = NoEntry /\ state[n][k].dead

\* C10: after any sequence of Set and Del operations on a key, in any
\* arrival order, the actor's entry for the key is the one with the greatest
\* HLC among them, and an operation with a lower or equal HLC never replaces
\* the entry.
C10_GreatestHlcWins ==
    /\ [](\A n \in Nodes, k \in Keys : GreatestWins(n, k))
    /\ [][OnlyLaterReplaces]_vars

\* Both a Set and a Del of one key were applied, with different timestamps,
\* and a third operation on the key at the winning timestamp lost the tie.
C10_Witness ==
    \E k \in Keys :
        /\ \E o \in AppliedTo(1, k), q \in AppliedTo(1, k) : o.ts < q.ts /\ o.dead # q.dead
        /\ \E o \in AppliedTo(1, k) : o.ts = state[1][k].ts /\ o.dead # state[1][k].dead

\* -------------------------------------------------- keyspace group: claims
\* C8: the callers that asked for one name all hold a handle to the same
\* actor, the one registered under the name.
C8_OneActorPerName ==
    \A c \in GroupCallers :
        gcall[c].pc = "done" =>
            /\ gcall[c].handle = group[gcall[c].name]
            /\ \A d \in GroupCallers :
                  (gcall[d].pc = "done" /\ gcall[d].name = gcall[c].name) =>
                      gcall[d].handle = gcall[c].handle

\* ---------------------------------------------------------- fan-out: claims
Returned(h) == req[h].pc = "done"

ConsistencyFailure(responses, required) ==
    [kind |-> "ConsistencyFailure", responses |-> responses, required |-> required]

\* C1: a mutation that reached the dispatch step returns Ok exactly when as
\* many peers acknowledged as were selected; otherwise it returns
\* ConsistencyFailure with responses = the peers that acknowledged and
\* required = the peers selected.
C1_OkExactlyWhenAllAcked ==
    \A h \in Handles :
        (Returned(h) /\ req[h].local = "ok") =>
            /\ req[h].result.kind \in {"Ok", "ConsistencyFailure"}
            /\ req[h].result.kind = "Ok" <=>
                  Cardinality(req[h].acked) = Cardinality(req[h].nodes)
            /\ req[h].result.kind = "ConsistencyFailure" =>
                  req[h].result = ConsistencyFailure(Cardinality(req[h].acked),
                                                     Cardinality(req[h].nodes))

\* One mutation returned Ok with both peers' acknowledgements, the other
\* failed with one acknowledgement of two.
C1_Witness ==
    \E h \in Handles, g \in Handles :
        /\ Returned(h) /\ req[h].result = [kind |-> "Ok"] /\ req[h].acked = Peers
        /\ Returned(g) /\ req[g].result = ConsistencyFailure(1, 2)

\* The step in which a handle's selection fails.
SelectionFailing(h) == req[h].selected # "err" /\ req'[h].selected = "err"

\* C2: a mutation whose consistency level the selector cannot satisfy has
\* returned NotEnoughNodes at once: it has no timestamp, has not been applied
\* locally and has contacted no peer; and the failing step leaves the clock,
\* the storage and the CRDT sets as they were.
C2_SelectionFailureIsFailFast ==
    /\ [](\A h \in Handles :
            req[h].selected = "err" =>
                /\ Returned(h)
                /\ req[h].result = [kind |-> "NotEnoughNodes"]
                /\ req[h].ts = 0
                /\ req[h].local = "no"
                /\ req[h].sent = {})
    /\ [][\A h \in Handles :
            SelectionFailing(h) =>
                UNCHANGED <<hlc, documents, metadata, state, update_counter>>]_vars

\* A selection failed on a node that holds data of the other handle.
C2_Witness ==
    \E h \in Handles, g \in Handles :
        /\ req[h].selected = "err" /\ req[h].level = "Quorum"
        /\ req[g].local = "ok"
        /\ state[Local] # EmptySet

\* The local node holds the mutation of handle h, or a later one, for the
\* keys of the mutation.
AppliedAt(n, h) ==
    \A k \in req[h].keys :
        /\ state[n][k].ts >= req[h].ts
        /\ state[n][k].ts = req[h].ts => state[n][k] = Entry(req[h].ts, IsDel(req[h].kind))

\* C3: a peer is contacted only after the local apply has completed, and a
\* mutation whose local apply failed has returned the storage error without
\* contacting a peer.
C3_LocalApplyFirst ==
    \A h \in Handles :
        /\ req[h].sent # {} => (req[h].local = "ok" /\ AppliedAt(Local, h))
        /\ req[h].local = "err" =>
              /\ Returned(h)
              /\ req[h].result = [kind |-> "StorageError"]
              /\ req[h].sent = {}
              /\ \A p \in Peers : state[p] = EmptySet \/ \E g \in Handles : p \in req[g].acked

\* One mutation failed locally after peers had been selected for it, the
\* other has contacted its peers.
C3_Witness ==
    \E h \in Handles, g \in Handles :
        /\ req[h].local = "err" /\ req[h].nodes = Peers
        /\ req[g].sent = Peers /\ req[g].acked # {}

\* The entry the mutation of handle h writes for each of its keys.
EntryOf(h) == Entry(req[h].ts, IsDel(req[h].kind))

\* The storage row of key k at node n is the one handle h wrote, or one
\* another mutation wrote over it at that node.
RowHeld(rows, n, h, k) ==
    \/ rows[n][k] = EntryOf(h)
    \/ \E g \in Handles \ {h} :
          /\ k \in req[g].keys
          /\ IF n = Local THEN req[g].local = "ok" ELSE n \in req[g].acked
          /\ rows[n][k] = EntryOf(g)

\* The step in which handle h returns ConsistencyFailure.
FailingReturn(h) ==
    /\ ~Returned(h)
    /\ req'[h].pc = "done"
    /\ req'[h].result.kind = "ConsistencyFailure"

\* C4: when a mutation has returned ConsistencyFailure, the local metadata
\* and the local CRDT set still hold it with its timestamp (or a mutation
\* applied over it), and so does every peer that acknowledged; the returning
\* step takes nothing back, documents included, on any of these nodes.
C4_NoRollback ==
    /\ [](\A h \in Handles :
            (Returned(h) /\ req[h].result.kind = "ConsistencyFailure") =>
                \A n \in {Local} \cup req[h].acked :
                    /\ AppliedAt(n, h)
                    /\ \A k \in req[h].keys : RowHeld(metadata, n, h, k))
    /\ [][\A h \in Handles :
            FailingReturn(h) =>
                /\ documents'[Local] = documents[Local]
                /\ metadata'[Local] = metadata[Local]
                /\ state'[Local] = state[Local]
                /\ \A p \in req[h].acked :
                      /\ documents'[p] = documents[p]
                      /\ metadata'[p] = metadata[p]
                      /\ state'[p] = state[p]]_vars

\* A mutation returned ConsistencyFailure with one acknowledgement of two,
\* while the other handle's mutation of the same key was applied locally.
C4_Witness ==
    \E h \in Handles, g \in Handles :
        /\ h # g
        /\ Returned(h) /\ req[h].result = ConsistencyFailure(1, 2)
        /\ req[g].local = "ok" /\ req[g].keys \cap req[h].keys # {}
        /\ req[g].ts < req[h].ts

\* A put with Quorum in the cluster of three nodes, both peers selected, has
\* returned after neither peer acknowledged: both RPCs failed.
QuorumPutBothPeersDead(h) ==
    /\ Returned(h)
    /\ req[h].kind = "put" /\ req[h].level = "Quorum"
    /\ req[h].nodes = Peers /\ Cardinality(Peers) = 2
    /\ req[h].local = "ok"
    /\ req[h].acked = {}

\* C6 as stated: the put returns ConsistencyFailure with responses = 1 and
\* required = 2.
C6_ResponsesCountLocal ==
    \A h \in Handles :
        QuorumPutBothPeersDead(h) => req[h].result = ConsistencyFailure(1, 2)

\* C6: in a cluster of three nodes whose two peers are dead, a put with
\* Quorum returns ConsistencyFailure with responses = 0 and required = 2:
\* only the peers' acknowledgements are counted.
C6_ResponsesCountPeers ==
    \A h \in Handles :
        QuorumPutBothPeersDead(h) => req[h].result = ConsistencyFailure(0, 2)

\* The put has returned, and the local node holds its document.
C6_Witness ==
    \E h \in Handles :
        /\ QuorumPutBothPeersDead(h)
        /\ \A k \in req[h].keys : state[Local][k].ts >= req[h].ts
        /\ \A p \in Peers : state[p] = EmptySet

\* ---------------------------------------------------- anti-entropy: claims
\* What a read of key k answers on node n: the timestamp of the live entry,
\* 0 when the key is absent or deleted.
Get(n, k) == IF state[n][k].dead THEN 0 ELSE state[n][k].ts

ObservedOnBoth(k) == \A n \in SyncNodes : state[n][k] # NoEntry

\* C5: once the writes have stopped and the anti-entropy work of each of the
\* two pollers has ended after that, the two nodes answer a read of every key
\* they have both observed alike.
C5_ReplicasConverge ==
    (WritesStopped /\ \A n \in SyncNodes : cycle_done[n] /\ poll[n].pc = "recv") =>
        \A k \in Keys : ObservedOnBoth(k) => Get(1, k) = Get(2, k)

\* ------------------------------------------- keyspace: claims C11 to C20
\* A live entry of key k with a timestamp below that of the purged tombstone.
Resurrected(rows, n, k) ==
    /\ purged_at[n][k] > 0
    /\ rows[n][k] # NoEntry
    /\ ~rows[n][k].dead
    /\ rows[n][k].ts < purged_at[n][k]

\* C16: once the tombstone of key k, deleted with timestamp T, has been
\* purged, an insert of k with a lower timestamp does not bring k back: the
\* CRDT set holds no live entry of k below T, nor does the storage metadata
\* once every call has returned.
C16_NoResurrection ==
    \A n \in Nodes, k \in Keys :
        /\ ~Resurrected(state, n, k)
        /\ AllReturned => ~Resurrected(metadata, n, k)

\* The steps of a method of caller c, by the position before and after.
Moves(c, from, to) == call[c].pc \in from /\ call'[c].pc = to

Stamping(c) == Moves(c, {"idle", "done"}, "store")
Storing(c) == Moves(c, {"store"}, "send")
Enqueueing(c) == Moves(c, {"send"}, "wait")
Returning(c) == Moves(c, {"wait"}, "done")

\* A step of caller c is the next step of its method, and does that step's
\* work and no other's.
NextStepOnly(c) ==
    /\ call'[c].pc # call[c].pc =>
          \/ Stamping(c) \/ Storing(c) \/ Enqueueing(c) \/ Returning(c)
          \/ Moves(c, {"store"}, "done") /\ call'[c].result = "StorageError"
          \/ Moves(c, {"idle", "done"}, "wait_purge")
          \/ Moves(c, {"wait_purge"}, "done")
    /\ Stamping(c) =>
          /\ update_counter'[call'[c].node] = wall_ms
          /\ UNCHANGED <<metadata, tasks, state>>
    /\ Storing(c) =>
          /\ \A i \in 1..Len(call[c].pairs) :
                metadata'[call[c].node][call[c].pairs[i][1]].dead = IsDelete(call[c].op)
          /\ metadata'[call[c].node][call[c].pairs[Len(call[c].pairs)][1]] =
                Entry(call[c].pairs[Len(call[c].pairs)][2], IsDelete(call[c].op))
          /\ UNCHANGED <<update_counter, tasks, state>>
    /\ Enqueueing(c) =>
          /\ tasks'[call[c].node] =
                Append(tasks[call[c].node],
                       [op |-> call[c].op, pairs |-> call[c].pairs, tx |-> c])
          /\ UNCHANGED <<update_counter, metadata, state>>
    /\ Returning(c) =>
          /\ reply[c].sent
          /\ call'[c].result = "Ok"
          /\ UNCHANGED <<update_counter, metadata, tasks, state>>

\* Work is done only by the step it belongs to.
WorkBelongsToStep ==
    /\ update_counter' # update_counter => \E c \in Callers : Stamping(c)
    /\ metadata' # metadata =>
          \E c \in Callers : Storing(c) \/ Moves(c, {"wait_purge"}, "done")
    /\ (\E n \in Nodes : Len(tasks'[n]) > Len(tasks[n])) =>
          \E c \in Callers : Enqueueing(c) \/ Moves(c, {"idle", "done"}, "wait_purge")

\* C18: put, multi_put, del and multi_del stamp the counter, then write the
\* metadata, then enqueue the Op, then await the reply: each step starts
\* only when the one before it has finished.
C18_StepsInOrder ==
    [][WorkBelongsToStep /\ \A c \in Callers : NextStepOnly(c)]_vars

\* Both callers ran a method to its end, one of them a multi_del.
C18_Witness ==
    /\ \A c \in Callers : call[c].pc = "done" /\ call[c].result = "Ok"
    /\ \E c \in Callers : call[c].op = "MultiDel"
    /\ update_counter[1] = wall_ms
    /\ state[1] # EmptySet

\* The actor of node n takes a message in this step.
Taking(n) == Len(tasks'[n]) < Len(tasks[n])

\* What the set of node n is after the message alone has been applied to it.
SetAfter(set, msg) ==
    IF msg.op \in Mutating THEN ApplyOp(set, msg)
    ELSE IF msg.op = "PurgeDeletes" THEN PurgeOldDeletes(set, reply'[msg.tx].keys)
    ELSE set

\* A step of the actor takes the oldest message, applies it alone to the
\* set and answers it, once, on its own channel.
OneMessageAtATime(n) ==
    /\ Taking(n) =>
          LET msg == Head(tasks[n]) IN
            /\ tasks'[n] = Tail(tasks[n])
            /\ state'[n] = SetAfter(state[n], msg)
            /\ ~reply[msg.tx].sent /\ reply'[msg.tx].sent
            /\ \A d \in (Callers \cup Pollers) \ {msg.tx} : reply'[d] = reply[d]
    /\ state'[n] # state[n] => Taking(n)
    /\ \A c \in Callers \cup Pollers :
          (reply'[c].sent /\ ~reply[c].sent) => \E m \in Nodes : Taking(m)

\* A request is in the inbox or answered, never both and never twice.
OneAnswerPerMessage ==
    \A c \in Callers :
        LET queued == {<<n, i>> \in Nodes \X (1..InboxCapacity) :
                          i <= Len(tasks[n]) /\ tasks[n][i].tx = c}
        IN /\ Cardinality(queued) <= 1
           /\ reply[c].sent => queued = {}
           /\ call[c].pc \in {"wait", "wait_purge"} <=> (reply[c].sent \/ queued # {})

\* C19: the actor takes the messages of its inbox one at a time, oldest
\* first; each is applied to the set and answered exactly once before the
\* next is taken, and nothing else changes the set.
C19_OneAtATimeInOrder ==
    /\ []OneAnswerPerMessage
    /\ [][\A n \in Nodes : OneMessageAtATime(n)]_vars

\* One caller has its answer while the other's message, sent later, waits.
C19_Witness ==
    \E c \in Callers, d \in Callers :
        /\ reply[c].sent
        /\ tasks[1] # << >> /\ Head(tasks[1]).tx = d
        /\ state[1] # EmptySet

\* C12: the last-updated counter of a keyspace never decreases, whatever the
\* interleaving of put, multi_put, del and multi_del.
C12_CounterMonotone ==
    [][\A n \in Nodes : update_counter'[n] >= update_counter[n]]_vars

\* C20: the actor of a keyspace leaves its loop once every sender handle has
\* been dropped and the inbox is drained (it then does, eventually), and
\* never while a sender handle is alive or a message is still in the inbox.
ExitsOnlyWhenDone(n) ==
    (running[n] /\ ~running'[n]) => (AllDropped /\ tasks[n] = << >> /\ UNCHANGED tasks)

C20_ExitsWhenAllDropped ==
    /\ [](~running[1] => (AllDropped /\ tasks[1] = << >>))
    /\ [][ExitsOnlyWhenDone(1)]_vars
    /\ (AllDropped ~> ~running[1])

\* The actor has ended after serving the message of a handle that was dropped
\* while its call was under way.
C20_Witness ==
    /\ ~running[1]
    /\ applied[1] # {}
    /\ \E c \in Callers : call[c].pc = "dropped" /\ reply[c].sent

\* A mutation of handle h issued with consistency level None.
WithLevelNone(h) == req[h].pc # "idle" /\ req[h].level = "None"

\* C17: with consistency level None the selection never fails and selects no
\* peer; the mutation is applied locally, no peer is sent the RPC, and once
\* the local apply has succeeded the call returns Ok (and nothing else).
C17_NoneSelectsNoPeer ==
    \A h \in Handles :
        WithLevelNone(h) =>
            /\ req[h].selected = "ok"
            /\ req[h].nodes = {}
            /\ req[h].sent = {} /\ req[h].pending = {} /\ req[h].acked = {}
            /\ req[h].pc \in {"selected", "stamped", "applied", "done"}
            /\ (Returned(h) /\ req[h].local = "ok") =>
                  (req[h].result = [kind |-> "Ok"] /\ AppliedAt(Local, h))
            /\ (Returned(h) /\ req[h].local # "ok") =>
                  req[h].result = [kind |-> "StorageError"]

\* A mutation with level None has returned Ok while the cluster had peers.
C17_Witness ==
    \E h \in Handles :
        /\ WithLevelNone(h)
        /\ Returned(h)
        /\ req[h].local = "ok"
        /\ req[h].result = [kind |-> "Ok"]
        /\ topology = Peers

\* C13: a poller started for a peer keeps ticking while the peer is a member
\* (the peer never leaves here and no shutdown is signalled): it never stops,
\* whether a probe or a sync has failed.
C13_PollerKeepsTicking == \A n \in PollNodes : poll[n].pc # "stopped"

\* The step in which a sync of poller n ends with an error.
FailingEnd(n) == poll[n].pc # "recv" /\ poll'[n].pc = "recv" /\ poll'[n].failed

\* C14: when a step of reconciling the keyspace with the peer fails, the
\* poller's last-known counter keeps its previous value, so the counter that
\* was probed still counts as changed against it.
C14_FailureKeepsCounter ==
    [][\A n \in PollNodes :
          FailingEnd(n) =>
              /\ previous_state'[n] = previous_state[n]
              /\ Changed(poll[n].new, previous_state'[n])]_vars

\* A sync has failed on clear_tombstone_documents: the set is merged with the
\* peer's, and the last-known counter is still 0 while the peer's is not.
C14_Witness ==
    /\ poll[1].pc = "recv" /\ poll[1].failed
    /\ state[1] = state[2] /\ state[2] # EmptySet
    /\ previous_state[1] = 0
    /\ update_counter[2] # 0

\* Poller n is at a tick and the counter it would probe is 0.
ProbesZero(n) == poll[n].pc = "tick" /\ update_counter[PeerOf(n)] = 0

\* C15: a probed counter of 0 counts as changed whatever the last-known
\* counter is, and a poller that probes 0 goes on to fetch the snapshot: the
\* tick is never skipped.
C15_ZeroForcesReconcile ==
    /\ \A old \in 0..MaxWall : Changed(0, old)
    /\ [](\A n \in PollNodes :
             ProbesZero(n) => Changed(update_counter[PeerOf(n)], previous_state[n]))
    /\ [][\A n \in PollNodes :
             (ProbesZero(n) /\ poll'[n] # poll[n]) =>
                 poll'[n].pc \in {"get_doc_set", "stopped"}]_vars

\* A poller whose node has been written goes on to fetch the snapshot of its
\* never-written peer.
C15_Witness ==
    /\ poll[1].pc = "get_doc_set" /\ poll[1].new = 0
    /\ previous_state[1] = 0
    /\ state[1] # EmptySet

\* The first tick of poller n is over and was clean: its work ended without
\* error after the last write had returned, so no write lies between it and
\* the tick that should follow.
FirstTickOver(n) == cycle_done[n] /\ ~poll[n].failed

\* The test finds the keyspace of the peer of poller n unchanged.
SkipsNow(n) == ~Changed(update_counter[PeerOf(n)], previous_state[n])

\* C11: with no write between two consecutive ticks of a poller, the poller
\* comes to its second tick, where the probe is its only request: the test
\* skips the keyspace, a never-written one too, so no snapshot and no
\* document is fetched.
C11_SecondTickOnlyProbes ==
    \A n \in PollNodes : FirstTickOver(n) => (poll[n].pc = "tick" /\ SkipsNow(n))

\* The inbox of node 1 is full.
InboxFull == Len(tasks[1]) = InboxCapacity

\* The messages of sender c in the inbox of node 1.
Pending(c) == {i \in 1..Len(tasks[1]) : tasks[1][i].tx = c}

\* The message of a sender that has enqueued is in the inbox once, or has
\* been applied and answered; a sender that has returned was served.
NoMessageLost ==
    \A c \in Senders :
        /\ call[c].pc \in {"idle", "send"} => (Pending(c) = {} /\ ~reply[c].sent)
        /\ call[c].pc = "wait" => (Cardinality(Pending(c)) = 1 <=> ~reply[c].sent)
        /\ call[c].pc = "wait" => Cardinality(Pending(c)) <= 1
        /\ (call[c].pc = "done" \/ reply[c].sent) =>
              (Pending(c) = {} /\ [key |-> 1, ts |-> 1, dead |-> FALSE] \in applied[1])

\* While the inbox is full no sender gets past its send; the only step that
\* changes the inbox is the actor taking the oldest message.
BlockedWhileFull ==
    InboxFull =>
        /\ \A c \in Senders : call[c].pc = "send" => call'[c].pc = "send"
        /\ tasks'[1] = tasks[1] \/ tasks'[1] = Tail(tasks[1])

\* C21: the inbox never holds more than 10 messages; a sender that finds it
\* full stays at its send until the actor has taken a message; no message is
\* lost, and in the end every sender that called has been served.
C21_BoundedInboxBackPressure ==
    /\ [](Len(tasks[1]) <= InboxCapacity)
    /\ []NoMessageLost
    /\ [][BlockedWhileFull]_vars
    /\ <>[](\A c \in Senders : call[c].pc \in {"idle", "done"})

\* The inbox is full and one more sender is at its send.
C21_Witness == InboxFull /\ call[NumSenders].pc = "send"

\* The peers of the mutation of handle h whose future has ended with an error.
FailedPeers(h) == (req[h].sent \ req[h].pending) \ req[h].acked

\* C22: a failure of one peer is recorded and not raised: while a dispatched
\* peer call is pending the mutation has no result, it returns only when
\* every dispatched call has settled, and every acknowledgement is counted,
\* those that come after a failure too.
C22_FailuresNotRaisedEarly ==
    \A h \in Handles :
        /\ req[h].pending \subseteq req[h].sent
        /\ req[h].acked \subseteq req[h].sent \ req[h].pending
        /\ req[h].num_success = Cardinality(req[h].acked)
        /\ req[h].pending # {} =>
              (req[h].pc = "dispatch" /\ req[h].result = [kind |-> "None"])
        /\ (Returned(h) /\ req[h].sent # {}) =>
              /\ req[h].pending = {}
              /\ req[h].sent = req[h].nodes
              /\ req[h].result = Outcome(Cardinality(req[h].acked), Cardinality(req[h].nodes))

\* A mutation is still waiting for one peer after another has failed, and a
\* mutation has returned with one failure and one acknowledgement counted.
C22_Witness ==
    /\ \E h \in Handles : FailedPeers(h) # {} /\ req[h].pending # {}
    /\ \E h \in Handles :
          /\ Returned(h)
          /\ FailedPeers(h) # {} /\ req[h].acked # {}
          /\ req[h].result = ConsistencyFailure(1, 2)

\* Peer p holds, for every key of the mutation of handle h, the entry that
\* mutation carries, or the entry of another mutation it has acknowledged
\* for that key.
CarriedTo(p, h) ==
    /\ AppliedAt(p, h)
    /\ \A k \in req[h].keys : RowHeld(documents, p, h, k) /\ RowHeld(state, p, h, k)

\* The timestamp of a mutation is taken once, and a peer once dispatched to
\* is not dispatched to again.
TakenOnceSentOnce(h) ==
    /\ req[h].ts # 0 => req'[h].ts = req[h].ts
    /\ req[h].sent # {} =>
          (req'[h].sent = req[h].sent /\ req'[h].pending \subseteq req[h].pending)

\* C23: one timestamp is taken for a mutation, after the peers are selected
\* and before the local apply; the local apply and the call to every selected
\* peer carry that operation and timestamp; every selected peer is dispatched
\* to exactly once.
C23_OneTimestampOneDispatch ==
    /\ [](\A h \in Handles :
            /\ req[h].ts # 0 => req[h].selected = "ok"
            /\ req[h].pc \in {"idle", "selected"} => req[h].ts = 0
            /\ req[h].local # "no" => req[h].ts # 0
            /\ \A g \in Handles \ {h} : req[h].ts # 0 => req[g].ts # req[h].ts
            /\ req[h].local = "ok" =>
                  (AppliedAt(Local, h) /\ \A k \in req[h].keys : RowHeld(state, Local, h, k))
            /\ \A p \in req[h].acked : CarriedTo(p, h)
            /\ req[h].sent \in {{}, req[h].nodes}
            /\ (req[h].pc = "dispatch" \/ (Returned(h) /\ req[h].local = "ok")) =>
                  req[h].sent = req[h].nodes)
    /\ [][\A h \in Handles : TakenOnceSentOnce(h)]_vars

\* A put_many has returned Ok: the local node and both peers hold its entry
\* for every key.
C23_Witness ==
    \E h \in Handles :
        /\ req[h].kind = "put_many" /\ Returned(h) /\ req[h].acked = Peers
        /\ \A n \in Nodes, k \in Keys :
              state[n][k] = EntryOf(h) /\ documents[n][k] = EntryOf(h)

\* Poller n is at a tick and the counter it would probe is not 0.
ProbesNonZero(n) == poll[n].pc = "tick" /\ update_counter[PeerOf(n)] # 0

\* The step in which poller n, having probed, goes on to reconcile.
Enqueues(n) == poll[n].pc = "tick" /\ poll'[n].pc = "get_doc_set"

EmptyDiffArrived(n) ==
    /\ poll[n].pc = "await_doc_set"
    /\ reply[PollerOf(n)].sent
    /\ LET d == Diff(state[n], reply[PollerOf(n)].set)
       IN d.changed = {} /\ d.removed = {}

\* C25: when the diff of the peer's snapshot against the local set is empty
\* the sync stops there: the step that ends it without error writes no
\* document, no tombstone and nothing to the local set, records the probed
\* counter, and the work of the tick is over; a poller is at the documents
\* or at the merge only with a diff that is not empty.
C25_EmptyDiffStops ==
    /\ [](\A n \in PollNodes :
             poll[n].pc \in {"sync", "merge"} =>
                 poll[n].changed \cup poll[n].removed # {})
    /\ [][\A n \in PollNodes :
             (EmptyDiffArrived(n) /\ poll'[n] # poll[n] /\ ~poll'[n].failed) =>
                 /\ poll'[n].pc = "recv"
                 /\ previous_state'[n] = poll[n].new
                 /\ documents' = documents
                 /\ state'[n] = state[n]
                 /\ metadata' = metadata]_vars

\* A sync has recorded the peer's counter without writing a document: the
\* peer holds entries, and none of them was new to the local set.
C25_Witness ==
    /\ poll[1].pc = "recv" /\ ~poll[1].failed
    /\ previous_state[1] # 0
    /\ documents[1] = EmptySet
    /\ state[2] # EmptySet

\* ------------------------------------------------- shard sync: claims
\* The documents of the keys in `keys` on node n are those of the snapshot.
DocsWritten(n, keys) == \A k \in keys : documents[n][k] = poll[n].snapshot[k]

\* The step in which the sync of poller n invokes the merge.
MergeInvoked(n) == poll[n].pc = "merge" /\ poll'[n].pc = "clear_tombstones"

\* Both the delete task and the upserts of the sync of poller n returned Ok.
MarkedAndUpserted(n) == poll[n].delete_task = "ok" /\ poll[n].upsert = "ok"

\* C26: the sync invokes the merge only after the tombstones of the removed
\* keys have been marked and every fetched document upserted, both with
\* success; the local set changes in no other step, and when either has
\* failed the sync never comes to the merge and the set stays as it was.
C26_MergeAfterMarkAndUpsert ==
    /\ [](\A n \in PollNodes :
             poll[n].pc \in {"merge", "clear_tombstones"} =>
                 /\ MarkedAndUpserted(n)
                 /\ DocsWritten(n, poll[n].removed \cup poll[n].changed))
    /\ [][\A n \in PollNodes :
             state'[n] # state[n] => (MergeInvoked(n) /\ MarkedAndUpserted(n))]_vars
    /\ [](\A n \in PollNodes :
             (poll[n].delete_task = "err" \/ poll[n].upsert = "err") =>
                 /\ poll[n].pc \notin {"merge", "clear_tombstones"}
                 /\ state[n] = EmptySet)

\* A sync with a key to upsert and a key to mark has invoked the merge.
C26_Witness ==
    /\ poll[1].pc = "clear_tombstones"
    /\ poll[1].changed # {} /\ poll[1].removed # {}
    /\ state[1] # EmptySet

\* The step in which the sync of poller n, having merged, ends with Ok.
ClearedAndRecorded(n) ==
    poll[n].pc = "clear_tombstones" /\ poll'[n].pc = "recv" /\ ~poll'[n].failed

\* C27: the keys the merge purged are the keys handed to
\* clear_tombstone_documents; the step that ends the sync with Ok clears their
\* documents and sets the last-known counter; the counter is set in no step
\* that fails, and the value written is the one the probe read when the tick
\* began, which the sync never reads again.
C27_ClearedThenProbedValueRecorded ==
    /\ [](\A n \in PollNodes :
             poll[n].pc = "clear_tombstones" =>
                 /\ poll[n].purged = {k \in Keys : purged_at[n][k] > 0}
                 /\ \A k \in poll[n].purged : state[n][k] = NoEntry)
    /\ [][\A n \in PollNodes :
             ClearedAndRecorded(n) =>
                 /\ \A k \in poll[n].purged : documents'[n][k] = NoEntry
                 /\ previous_state'[n] = poll[n].new]_vars
    /\ [][\A n \in PollNodes :
             previous_state'[n] # previous_state[n] =>
                 /\ poll[n].pc \in {"clear_tombstones", "await_doc_set"}
                 /\ ~poll'[n].failed
                 /\ previous_state'[n] = poll[n].new]_vars
    /\ [][\A n \in PollNodes :
             /\ Enqueues(n) => poll'[n].new = update_counter[PeerOf(n)]
             /\ poll[n].pc \notin {"tick", "recv"} => poll'[n].new \in {poll[n].new, 0}]_vars

\* A sync that purged a key has ended with Ok: the key's document is gone and
\* the counter recorded is the probed one, which the peer's counter has left
\* behind since.
C27_Witness ==
    /\ poll[1].pc = "recv" /\ ~poll[1].failed
    /\ previous_state[1] # 0
    /\ previous_state[1] # update_counter[2]
    /\ \E k \in Keys : purged_at[1][k] > 0 /\ documents[1][k] = NoEntry

\* The syncs of the poller of peer p that are in flight: the tasks between
\* the permit they acquired and their end.
InFlight(p) == {s \in Shards : shard_tasks[p][s].pc \in {"sync", "send"}}

\* The tasks of the poller of peer p that wait for the permit.
Waiting(p) == {s \in Shards : shard_tasks[p][s].pc = "acquire"}

RunningFor(addr) ==
    {i \in 1..Len(node_pollers) :
        node_pollers[i].addr = addr /\ node_pollers[i].status = "running"}

\* The watcher has processed an update: it waits for the next one.
UpdateProcessed == watcher.pc = "idle" /\ updates > 0

\* C29: when the watcher has processed an update, every address a member of
\* that update announces has exactly one poller running, and an address no
\* member announces has none.
C29_OnePollerPerMemberAddress ==
    UpdateProcessed =>
        \A addr \in Peers :
            Cardinality(RunningFor(addr)) =
                IF addr \in AddrsOf(last_network_set) THEN 1 ELSE 0

\* The pollers spawned for the pair (node_id, addr).
PollersOf(pair) ==
    {i \in 1..Len(node_pollers) :
        node_pollers[i].node_id = pair[1] /\ node_pollers[i].addr = pair[2]}

\* C30: when the watcher replaces the last snapshot by the new one, the
\* poller of every pair that left has been cancelled and has finished, and
\* the channel to its address has been disconnected (an address that a pair
\* of the same update joins with is connected again).
C30_RemovedJoinedBeforeReplace ==
    [][last_network_set' # last_network_set =>
          \A pair \in last_network_set \ last_network_set' :
              /\ \A i \in PollersOf(pair) : node_pollers[i].status = "finished"
              /\ pair[2] \in connected => pair[2] \in AddrsOf(last_network_set')]_vars

\* C31: a poller for an address is started only while no poller runs for
\* that address: the poller registered for it, if any, was cancelled before.
C31_CancelledBeforeStarted ==
    [][\A addr \in Peers :
          RunningFor(addr)' \ RunningFor(addr) # {} => RunningFor(addr) = {}]_vars

\* --------------------------------------------------- poll tick: termination
\* C32: every poll tick terminates: once the work of a tick of a poller is
\* over (its sync has finished or failed, or the keyspace was skipped),
\* handle_node_state_change returns and the poller comes to its next
\* interval tick.
C32_TickTerminates ==
    \A n \in PollNodes : (poll[n].pc = "recv") ~> (poll[n].pc = "tick")

\* ---------------------------------------------- skipped keyspace: nothing missed
\* The set `set` holds, for every key, an entry no older than that of `other`.
Covers(set, other) == \A k \in Keys : set[k].ts >= other[k].ts

\* C33: whenever the last-known counter of a poller equals the current
\* counter of its peer, so that the poller skips the keyspace, the snapshot it
\* last merged held every mutation the peer has applied to its set: the set of
\* the poller, which took that snapshot in, covers the set of the peer.
C33_SkippedMeansNothingMissed ==
    \A n \in PollNodes : SkipsNow(n) => Covers(state[n], state[PeerOf(n)])

\* ------------------------------------------- keyspace group: published counters
\* Every call on the group has returned.
GroupCallsReturned == \A c \in GroupCallers : gcall[c].pc \in {"idle", "done"}

\* C34: once the calls on the group have returned, the two maps hold the
\* same names, and the counter published under a name is the counter of the
\* handle registered under that name, the one its mutations stamp.
C34_PublishedCounterIsHandleCounter ==
    GroupCallsReturned =>
        \A name \in Keyspaces : keyspace_timestamps[name] = group[name]

\* ------------------------------------------------- purge_tombstones: claims
\* The actor answers the PurgeDeletes of caller c.
PurgeAnswered(c) == call[c].pc = "wait_purge" /\ ~reply[c].sent /\ reply'[c].sent

\* purge_tombstones of caller c returns.
PurgeReturns(c) == call[c].pc = "wait_purge" /\ call'[c].pc = "done"

\* C35: the keys the actor answers a PurgeDeletes with are the keys it purged
\* from the set; purge_tombstones removes exactly these keys from the storage
\* metadata and returns Ok, or, when the removal fails, returns the storage
\* error, leaves the metadata as it was and does not put the purged keys back
\* into the set.
C35_PurgeRemovesWhatActorPurged ==
    [][\A c \in Callers :
          LET n == call[c].node IN
            /\ PurgeAnswered(c) =>
                  /\ reply'[c].keys = {k \in Keys : state'[n][k] # state[n][k]}
                  /\ \A k \in reply'[c].keys : state[n][k].dead /\ state'[n][k] = NoEntry
                  /\ metadata' = metadata
            /\ PurgeReturns(c) =>
                  /\ state' = state
                  /\ IF call'[c].result = "Ok"
                     THEN \A k \in Keys :
                             metadata'[n][k] =
                                IF k \in reply[c].keys THEN NoEntry ELSE metadata[n][k]
                     ELSE /\ call'[c].result = "StorageError"
                          /\ metadata' = metadata]_vars

\* A purge_tombstones has returned the storage error after the actor had
\* purged a tombstone: the metadata still lists the tombstone and the set no
\* longer holds its key.
C35_Witness ==
    \E c \in Callers, k \in Keys :
        /\ call[c].op = "PurgeDeletes" /\ call[c].pc = "done"
        /\ call[c].result = "StorageError"
        /\ purged_at[1][k] > 0
        /\ metadata[1][k].dead /\ metadata[1][k].ts = purged_at[1][k]
        /\ state[1][k] = NoEntry

====
